---- MODULE Spec2Model ----
(***************************************************************************)
(* Verification model of the Fleuriet / valuation engine of modelfleuriet.  *)
(*                                                                          *)
(* The module holds several specifications over one set of variables:       *)
(*   Spec     run_multi_year_analysis (src/core/analysis.py and             *)
(*            src/backend/core/analysis.py) over a statement-row table      *)
(*   SpecInd  calculate_fleuriet_indicators applied to reclassified data    *)
(*   SpecZ    calculate_z_score_prado applied to reclassified data          *)
(*   SpecWacc the capital weights of the two WACC computations              *)
(*   SpecRank run_complete_analysis and get_company_analysis over a batch   *)
(*            of CompanyFinancialData                                       *)
(*   SpecFetch the retry loops of obter_dados_mercado, calcular_beta and    *)
(*            obter_info_yfinance                                           *)
(*   SpecBatch successive runs of run_full_valuation_analysis in a process  *)
(*   SpecVal  processar_valuation_empresa on one company's statement        *)
(*   SpecPortfolio  PortfolioOptimizer.suggest_portfolio_allocation         *)
(*   SpecCustomRank AdvancedRanking.custom_rank_companies                   *)
(*   SpecClusters   the clusters of AdvancedRanking.identify_opportunities  *)
(*   SpecCache run_complete_analysis over the stored reports                *)
(* Each specification leaves the variables of the others at their idle      *)
(* value.  Amounts are integers; quotients are exact rationals <<n, d>>     *)
(* (the Python code uses binary floating point, whose rounding is not       *)
(* modelled).                                                               *)
(***************************************************************************)
EXTENDS Integers, Sequences, FiniteSets, TLC

VARIABLES
    \* ---- run_multi_year_analysis -------------------------------------
    variant,       \* "core" (src/core/analysis.py) or "backend"
    company_df,    \* the caller's statement-row table (sequence of rows)
    idx,           \* position of the for-loop in sorted(years)
    all_results,   \* all_results / all_fleuriet_results
    df_year,       \* the slice handed to reclassify_and_sum: [rows, cols]
    reclassified,  \* what reclassify_and_sum returned for that slice
    pc,            \* "idle", "loop" or "returned"
    ret,           \* the (result, error) pair returned to the caller
    \* ---- pure functions on reclassified data --------------------------
    f_in,          \* reclassified_data given to the function
    f_base,        \* base_indicators (None before the call)
    f_z,           \* result of calculate_z_score_prado
    f_pc,          \* "idle", "input", "indicators" or "scored"
    \* ---- WACC weights ---------------------------------------------------
    w_in,          \* [variant, equity, debt]
    w_out,         \* [status, w_e, w_d]
    w_pc,          \* "idle", "input" or "done"
    \* ---- run_complete_analysis / get_company_analysis -------------------
    companies_data, \* the CompanyFinancialData of the batch, in dict order
    report_df,     \* what generate_ranking_report returned (None before)
    final_report,  \* the dict returned to the caller (None before)
    r_pc,          \* "idle", "collected", "report", "opportunities",
                   \* "returned" or "raised"
    \* ---- retry loops of the external fetches -----------------------------
    q_fn,          \* the function running: its name, or "none"
    q_res,         \* the resource its current loop fetches
    q_attempt,     \* attempt of the current for-loop (0-based)
    q_log,         \* the fetches and sleeps made so far, in order
    q_ret,         \* the value the call returns (dados / info / beta so far)
    q_pc,          \* "idle", "loop" or "returned"
    \* ---- run_full_valuation_analysis within one process -------------------
    b_cache,       \* lru_cache of obter_dados_mercado: None or Some(dados)
    b_run,         \* number of the batch run in this process
    b_map,         \* ticker_map of the current run, one entry per row
    b_i,           \* position of the loop over ticker_map
    b_market,      \* market_data of the current run
    b_fetches,     \* market-data fetches performed during the current run
    b_used,        \* the market data each processed company was valued with
    b_results,     \* resultados_brutos
    b_ret,         \* the list the run returns
    b_pc,          \* "idle", "start", "loop" or "done"
    \* ---- processar_valuation_empresa ---------------------------------------
    v_in,          \* the company's statement, its market info and market data
    v_out,         \* the returned dict: None or Some(result)
    v_pc,          \* "idle", "start" or "returned"
    \* ---- advanced_ranking.py: one call of a ranking function ---------------
    a_in,          \* the arguments of the call
    a_out,         \* the value it returns
    a_pc,          \* "idle", "start" or "returned"
    \* ---- run_complete_analysis and the stored reports -----------------------
    s_db,          \* table analysis_reports, in order of insertion
    s_now,         \* the clock, in half days
    s_ret,         \* what the last call returned
    s_pc           \* "idle" or "ready"

runVars  == <<variant, company_df, idx, all_results, df_year, reclassified, pc, ret>>
funVars  == <<f_in, f_base, f_z, f_pc>>
waccVars == <<w_in, w_out, w_pc>>
rankVars == <<companies_data, report_df, final_report, r_pc>>
fetchVars == <<q_fn, q_res, q_attempt, q_log, q_ret, q_pc>>
batchVars == <<b_cache, b_run, b_map, b_i, b_market, b_fetches, b_used, b_results, b_ret, b_pc>>
valVars  == <<v_in, v_out, v_pc>>
advVars  == <<a_in, a_out, a_pc>>
cacheVars == <<s_db, s_now, s_ret, s_pc>>
moreVars == <<valVars, advVars, cacheVars>>
extVars  == <<rankVars, fetchVars, batchVars, moreVars>>
vars     == <<runVars, funVars, waccVars, extVars>>

-----------------------------------------------------------------------------
(* Bounds of the model *)

\* amounts of statement rows range over 0..MaxVal (and -MaxVal..MaxVal where signed)
MaxVal == 2
\* years handed to run_multi_year_analysis
MaxYears == 2
\* rows of the statement-row table
MaxRows == 2
\* market capitalisation, equity and debt range over -MaxCap..MaxCap
MaxCap == 3
\* the EBIT of a CompanyFinancialData ranges over -MaxEbit..MaxEbit
MaxEbit == 1

\* batch runs within one process, and rows of a ticker_map
MaxRuns == 2

MaxCompanies == 2

\* companies passed to suggest_portfolio_allocation
MaxPortfolio == 4

\* companies passed to custom_rank_companies
MaxRanked == 2

\* stored reports and clock ticks (half days) of the report store
MaxReports == 3

MaxClock == 4

-----------------------------------------------------------------------------
(* Optional values and exact rationals *)

\* Python's None
None == <<>>

Some(x) == <<x>>

Abs(x) == IF x < 0 THEN -x ELSE x

RECURSIVE Gcd(_, _)
Gcd(a, b) == IF b = 0 THEN a ELSE Gcd(b, a % b)

\* the rational n/d (d # 0) in lowest terms with a positive denominator
Rat(n, d) ==
    LET g == Gcd(Abs(n), Abs(d))
        s == IF d < 0 THEN -1 ELSE 1
    IN  <<(s * n) \div g, (s * d) \div g>>

RInt(n) == <<n, 1>>

\* a + b over the least common denominator (a, b in lowest terms)
RAdd(a, b) ==
    LET g == Gcd(a[2], b[2])
    IN  Rat(a[1] * (b[2] \div g) + b[1] * (a[2] \div g), (a[2] \div g) * b[2])

RSub(a, b) == RAdd(a, <<-b[1], b[2]>>)

\* a * b with the common factors cancelled before multiplying
RMul(a, b) ==
    LET g1 == Gcd(Abs(a[1]), b[2])
        g2 == Gcd(Abs(b[1]), a[2])
    IN  Rat((a[1] \div g1) * (b[1] \div g2), (a[2] \div g2) * (b[2] \div g1))

RLess(a, b) ==
    LET g == Gcd(a[2], b[2])
    IN  a[1] * (b[2] \div g) < b[1] * (a[2] \div g)

RLeq(a, b) ==
    LET g == Gcd(a[2], b[2])
    IN  a[1] * (b[2] \div g) <= b[1] * (a[2] \div g)

\* a decimal literal with three places, e.g. 1.887 = Milli(1887)
Milli(n) == Rat(n, 1000)

-----------------------------------------------------------------------------
(* src/core/analysis.py: reclassification *)

\* FLEURIET_ACCOUNT_MAPPING: account code -> category
FLEURIET_ACCOUNT_MAPPING ==
    [c \in {"1", "1.01.01", "1.01.02", "1.01.03", "1.01.04", "1.01.06",
            "1.01.07", "1.01.08", "1.02", "2.01.01", "2.01.02", "2.01.03",
            "2.01.04", "2.01.05", "2.02", "2.02.01", "2.03", "3.01", "3.02",
            "3.05", "3.09", "3.11"} |->
        CASE c = "1" -> "Ativo_Total"
          [] c \in {"1.01.01", "1.01.02"} -> "T_Ativo"
          [] c = "1.01.03" -> "AC_Clientes"
          [] c = "1.01.04" -> "AC_Estoques"
          [] c \in {"1.01.06", "1.01.07", "1.01.08"} -> "AC"
          [] c = "1.02" -> "ANC"
          [] c \in {"2.01.01", "2.01.03", "2.01.05"} -> "PC"
          [] c = "2.01.02" -> "PC_Fornecedores"
          [] c \in {"2.01.04", "2.02.01"} -> "T_Passivo"
          [] c = "2.02" -> "PNC"
          [] c = "2.03" -> "PL"
          [] c = "3.01" -> "DRE_Receita"
          [] c = "3.02" -> "DRE_Custo"
          [] c = "3.05" -> "DRE_LucroOperacional"
          [] c = "3.09" -> "DRE_ImpostoRenda"
          [] c = "3.11" -> "DRE_LucroLiquido"]

\* str.strip() on the account codes of the model: the one padded code loses
\* its blanks, every other code is returned as it is
Strip(c) == IF c = " 2.03 " THEN "2.03" ELSE c

\* the lambda of reclassify_and_sum: FLEURIET_ACCOUNT_MAPPING.get(x, 'Outros')
CategoryOf(code) ==
    LET x == Strip(code)
    IN  IF x \in DOMAIN FLEURIET_ACCOUNT_MAPPING
        THEN FLEURIET_ACCOUNT_MAPPING[x] ELSE "Outros"

\* AddTo with the total of the category overwritten by the row's value
AddToOverwrite(d, k, v) ==
    IF k \in DOMAIN d THEN [d EXCEPT ![k] = v] ELSE d @@ (k :> v)

\* dict[key] = dict.get(key, 0) + v
AddTo(d, k, v) ==
    IF k \in DOMAIN d THEN [d EXCEPT ![k] = @ + v] ELSE d @@ (k :> v)

\* df.groupby('CATEGORY')['VL_CONTA'].sum().to_dict(): one pass over the rows,
\* each row's value added to the total of its category
RECURSIVE GroupBySum(_, _)
GroupBySum(rows, acc) ==
    IF rows = <<>> THEN acc
    ELSE GroupBySum(Tail(rows), AddTo(acc, CategoryOf(Head(rows).code), Head(rows).val))

\* the empty dict
EmptyDict == [k \in {} |-> 0]

\* reclassify_and_sum(df): the returned dict
reclassify_and_sum(df) == GroupBySum(df.rows, EmptyDict)

\* reclassify_and_sum(df): its effect on df, the new column 'CATEGORY'
reclassify_columns(df) == df.cols \cup {"CATEGORY"}

\* dict.get(key): None when the key is absent
Get(d, k) == IF k \in DOMAIN d THEN Some(d[k]) ELSE None

\* dict.get(key, 0.0)
GetOr0(d, k) == IF k \in DOMAIN d THEN d[k] ELSE 0

\* safe_divide that answers 0 on a zero denominator
safe_divide_zero(numerator, denominator) ==
    IF denominator = None THEN None
    ELSE IF numerator = None THEN None
    ELSE IF denominator[1] = 0 THEN <<0, 1>>
    ELSE Rat(numerator[1], denominator[1])

\* safe_divide(numerator, denominator) on optional integers
safe_divide(numerator, denominator) ==
    IF denominator = None \/ denominator[1] = 0 THEN None
    ELSE IF numerator = None THEN None
    ELSE Rat(numerator[1], denominator[1])

-----------------------------------------------------------------------------
(* src/core/analysis.py: Fleuriet indicators *)

\* T computed from the treasury accounts instead of CDG and NCG
TreasuryIndependent(reclassified_data, CDG, NCG) ==
    (IF "T_Ativo" \in DOMAIN reclassified_data THEN reclassified_data["T_Ativo"] ELSE 0)
    - (IF "T_Passivo" \in DOMAIN reclassified_data THEN reclassified_data["T_Passivo"] ELSE 0)

\* T = CDG - NCG (line 53)
TreasuryOf(reclassified_data, CDG, NCG) == CDG - NCG

\* the if/elif chain of calculate_fleuriet_indicators (lines 56-68)
ClassifyStructure(CDG, NCG, T) ==
    IF CDG > 0 /\ NCG > 0 /\ T > 0 THEN "Estrutura Otima"
    ELSE IF CDG > 0 /\ NCG > 0 /\ T < 0 THEN "Alto Risco Financeiro"
    ELSE IF CDG > 0 /\ NCG < 0 THEN "Baixo Risco Financeiro"
    ELSE IF CDG < 0 /\ NCG < 0 /\ T > 0 THEN "Estrutura Pessima (Sobra)"
    ELSE IF CDG < 0 /\ NCG < 0 /\ T < 0 THEN "Estrutura Pessima (Falta)"
    ELSE IF CDG < 0 /\ NCG > 0 THEN "Insolvencia Total"
    ELSE "Nao identificado"

\* NCG = AC_Operacional - PC_Operacional (lines 43-46)
NcgOf(reclassified_data) ==
    LET AC_Operacional == GetOr0(reclassified_data, "AC_Clientes")
                          + GetOr0(reclassified_data, "AC_Estoques")
        PC_Operacional == GetOr0(reclassified_data, "PC_Fornecedores")
    IN  AC_Operacional - PC_Operacional

\* CDG = PL + PNC - ANC (lines 48-52)
CdgOf(reclassified_data) ==
    GetOr0(reclassified_data, "PL") + GetOr0(reclassified_data, "PNC")
    - GetOr0(reclassified_data, "ANC")

\* calculate_fleuriet_indicators: ({'NCG', 'CDG', 'T'}, tipo_estrutura)
calculate_fleuriet_indicators(reclassified_data) ==
    LET NCG == NcgOf(reclassified_data)
        CDG == CdgOf(reclassified_data)
        T   == TreasuryOf(reclassified_data, CDG, NCG)
    IN  [NCG |-> NCG, CDG |-> CDG, T |-> T,
         tipo_estrutura |-> ClassifyStructure(CDG, NCG, T)]

\* calculate_advanced_indicators raises TypeError (None * 365) when safe_divide
\* returns None under a guard that only tests the denominator for None
\* (lines 90-92); ILD and ROIC are guarded and do not raise
AdvancedRaises(reclassified_data) ==
    LET receita_liquida == Get(reclassified_data, "DRE_Receita")
        custo_produtos  == Get(reclassified_data, "DRE_Custo")
        clientes        == Get(reclassified_data, "AC_Clientes")
        estoques        == Get(reclassified_data, "AC_Estoques")
        fornecedores    == Get(reclassified_data, "PC_Fornecedores")
    IN  \/ receita_liquida # None /\ safe_divide(clientes, receita_liquida) = None
        \/ custo_produtos # None /\ safe_divide(estoques, custo_produtos) = None
        \/ custo_produtos # None /\ safe_divide(fornecedores, custo_produtos) = None

-----------------------------------------------------------------------------
(* src/core/analysis.py: Prado's Z-score *)

\* the structure names that contain each word tested by lines 141-144
\* ("Excelente" and "Boa" occur in no name calculate_fleuriet_indicators returns)
NamesContaining(word) ==
    CASE word = "Otima" -> {"Estrutura Otima"}
      [] word = "Risco" -> {"Alto Risco Financeiro", "Baixo Risco Financeiro"}
      [] word = "Pessima" -> {"Estrutura Pessima (Sobra)", "Estrutura Pessima (Falta)"}
      [] word = "Insolvencia" -> {"Insolvencia Total"}
      [] OTHER -> {}

\* lines 139-144: the number used for the structure type
StructureNumber(tipo_estrutura_str) ==
    IF tipo_estrutura_str \in NamesContaining("Otima") \cup NamesContaining("Excelente") THEN 4
    ELSE IF tipo_estrutura_str \in NamesContaining("Boa") THEN 3
    ELSE IF tipo_estrutura_str \in NamesContaining("Risco") THEN 2
    ELSE IF tipo_estrutura_str \in NamesContaining("Pessima") \cup NamesContaining("Insolvencia") THEN 1
    ELSE 0

\* lines 150-151 and 162: the numerator of X5, pcf + pncf
X5Numerator(reclassified_data) ==
    reclassified_data["PC"] + reclassified_data["PNC"]

\* lines 172-176
RiskClass(z) ==
    IF RLess(Milli(2675), z) THEN "Classe A (Risco Minimo)"
    ELSE IF RLess(Milli(2000), z) THEN "Classe B"
    ELSE IF RLess(Milli(1500), z) THEN "Classe C"
    ELSE IF RLess(Milli(1000), z) THEN "Classe D (Atencao)"
    ELSE "Classe E (Risco Elevado)"

\* the linear discriminant of line 169
ZEquation(x1, x2, x3, x4, x5) ==
    RSub(RAdd(RSub(RAdd(RAdd(Milli(1887), RMul(Milli(899), x1)),
                        RMul(Milli(971), x2)),
                   RMul(Milli(444), x3)),
              RMul(Milli(55), x4)),
         RMul(Milli(980), x5))

\* calculate_z_score_prado(reclassified_data, base_indicators):
\* [z |-> None or a rational, status |-> risk class or reason]
\* base_indicators maps "CDG", "NCG", "T" to integers (a key may be absent)
\* and carries the structure name under tipo
calculate_z_score_prado(reclassified_data, base_indicators) ==
    LET cdg == Get(base_indicators.ind, "CDG")
        ncg == Get(base_indicators.ind, "NCG")
        t   == Get(base_indicators.ind, "T")
        ativo_total     == Get(reclassified_data, "Ativo_Total")
        receita_liquida == Get(reclassified_data, "DRE_Receita")
        tipo_estrutura  == StructureNumber(base_indicators.tipo)
        pcf  == Get(reclassified_data, "PC")
        pncf == Get(reclassified_data, "PNC")
    IN  IF \E v \in {cdg, ncg, t, ativo_total, receita_liquida, pcf, pncf} : v = None
        THEN [z |-> None, status |-> "Dados insuficientes"]
        ELSE
          LET x1 == safe_divide(cdg, ativo_total)
              x2 == safe_divide(ncg, receita_liquida)
              x3 == RInt(tipo_estrutura)
              x4 == IF ncg[1] # 0 THEN safe_divide(t, Some(Abs(ncg[1]))) ELSE None
              x5 == IF ativo_total[1] # 0
                    THEN safe_divide(Some(X5Numerator(reclassified_data)), ativo_total)
                    ELSE None
          IN  IF \E x \in {x1, x2, x4, x5} : x = None
              THEN [z |-> None, status |-> "Calculo impossivel"]
              ELSE LET z == ZEquation(x1, x2, x3, x4, x5)
                   IN  [z |-> z, status |-> RiskClass(z)]

-----------------------------------------------------------------------------
(* Inputs of the pure functions *)

\* an absent key, or one of the values vs
Opt(vs) == {None} \cup {Some(v) : v \in vs}

\* the dict holding the keys of a that carry a value
DictOf(a) == [k \in {k \in DOMAIN a : a[k] # None} |-> a[k][1]]

\* reclassified data over the categories calculate_fleuriet_indicators reads
\* and the two "other operating" categories
IndInputs ==
    {DictOf(a) : a \in
        [AC_Clientes : Opt(0..MaxVal), AC_Estoques : Opt({1}),
         PC_Fornecedores : Opt(0..MaxVal), AC : Opt({1}), PC : Opt({1}),
         PL : Opt(-MaxVal..MaxVal), PNC : Opt({1})]}

\* reclassified data over the categories calculate_z_score_prado reads
ZInputs ==
    {DictOf(a) : a \in
        [AC_Clientes : Opt(0..MaxVal), PC_Fornecedores : Opt({1}),
         PL : Opt(-MaxVal..MaxVal), PC : Opt(0..1), PNC : Opt(0..1),
         Ativo_Total : Opt(0..MaxVal), DRE_Receita : Opt(0..MaxVal),
         T_Passivo : Opt({1})]}

\* base_indicators as run_multi_year_analysis hands it to
\* calculate_z_score_prado (lines 199-203), less the keys in drop
BaseIndicators(reclassified_data, drop) ==
    LET r == calculate_fleuriet_indicators(reclassified_data)
        d == [k \in {"NCG", "CDG", "T"} \ drop |-> r[k]]
    IN  [ind |-> d, tipo |-> r.tipo_estrutura]

RunIdle ==
    /\ variant = "none" /\ company_df = <<>> /\ idx = 0 /\ all_results = <<>>
    /\ df_year = None /\ reclassified = None /\ pc = "idle" /\ ret = None

FunIdle == f_in = None /\ f_base = None /\ f_z = None /\ f_pc = "idle"

WaccIdle == w_in = None /\ w_out = None /\ w_pc = "idle"

RankIdle ==
    /\ companies_data = <<>> /\ report_df = None /\ final_report = None
    /\ r_pc = "idle"

FetchIdle ==
    /\ q_fn = "none" /\ q_res = "none" /\ q_attempt = 0 /\ q_log = <<>>
    /\ q_ret = None /\ q_pc = "idle"

BatchIdle ==
    /\ b_cache = None /\ b_run = 0 /\ b_map = <<>> /\ b_i = 0 /\ b_market = None
    /\ b_fetches = 0 /\ b_used = <<>> /\ b_results = <<>> /\ b_ret = <<>>
    /\ b_pc = "idle"

ValIdle == v_in = None /\ v_out = None /\ v_pc = "idle"

AdvIdle == a_in = None /\ a_out = None /\ a_pc = "idle"

CacheIdle == s_db = <<>> /\ s_now = 0 /\ s_ret = None /\ s_pc = "idle"

MoreIdle == ValIdle /\ AdvIdle /\ CacheIdle

ExtIdle == RankIdle /\ FetchIdle /\ BatchIdle /\ MoreIdle

InitInd ==
    /\ f_in \in [data : IndInputs, drop : {{}}]
    /\ f_base = None /\ f_z = None /\ f_pc = "input"
    /\ RunIdle /\ WaccIdle /\ ExtIdle

InitZ ==
    /\ f_in \in [data : ZInputs, drop : {{}, {"NCG"}}]
    /\ f_base = None /\ f_z = None /\ f_pc = "input"
    /\ RunIdle /\ WaccIdle /\ ExtIdle

\* base_indicators, tipo_estrutura = calculate_fleuriet_indicators(...)
CalcIndicators ==
    /\ f_pc = "input"
    /\ f_base' = BaseIndicators(f_in.data, f_in.drop)
    /\ f_pc' = "indicators"
    /\ UNCHANGED <<f_in, f_z, runVars, waccVars, extVars>>

\* z_score, z_risk = calculate_z_score_prado(reclassified_data, base_indicators)
CalcZScore ==
    /\ f_pc = "indicators"
    /\ f_z' = calculate_z_score_prado(f_in.data, f_base)
    /\ f_pc' = "scored"
    /\ UNCHANGED <<f_in, f_base, runVars, waccVars, extVars>>

NextFun == CalcIndicators \/ CalcZScore

SpecInd == InitInd /\ [][NextFun]_vars

SpecZ == InitZ /\ [][NextFun]_vars

-----------------------------------------------------------------------------
(* Claims on the pure functions *)

\* the six-way table of the specification, T = 0 counted as non-negative
SixWayTable(CDG, NCG, T) ==
    CASE CDG > 0 /\ NCG > 0 /\ T >= 0 -> "Estrutura Otima"
      [] CDG > 0 /\ NCG > 0 /\ T < 0  -> "Alto Risco Financeiro"
      [] CDG > 0 /\ NCG < 0           -> "Baixo Risco Financeiro"
      [] CDG < 0 /\ NCG > 0           -> "Insolvencia Total"
      [] CDG < 0 /\ NCG < 0 /\ T < 0  -> "Estrutura Pessima (Falta)"
      [] CDG < 0 /\ NCG < 0 /\ T >= 0 -> "Estrutura Pessima (Sobra)"
      [] OTHER                        -> "Nao identificado"

\* C2: calculate_fleuriet_indicators classifies every (CDG, NCG, T) by the
\* six-way table, with T = 0 counted as non-negative.
C2_SixWayClassification ==
    f_pc \in {"indicators", "scored"} =>
        f_base.tipo = SixWayTable(f_base.ind["CDG"], f_base.ind["NCG"], f_base.ind["T"])

\* C4: NCG = (receivables + inventory + other operating current assets)
\*           - (payables + other operating current liabilities).
C4_NcgCyclical ==
    f_pc \in {"indicators", "scored"} =>
        f_base.ind["NCG"] =
            (GetOr0(f_in.data, "AC_Clientes") + GetOr0(f_in.data, "AC_Estoques")
               + GetOr0(f_in.data, "AC"))
            - (GetOr0(f_in.data, "PC_Fornecedores") + GetOr0(f_in.data, "PC"))

\* total assets, revenue or NCG is zero or missing
ZeroOrMissing(v) == v = None \/ v[1] = 0

C8_Degenerate ==
    \/ ZeroOrMissing(Get(f_in.data, "Ativo_Total"))
    \/ ZeroOrMissing(Get(f_in.data, "DRE_Receita"))
    \/ ZeroOrMissing(Get(f_base.ind, "NCG"))

\* C8: calculate_z_score_prado returns None with a status string, and no
\* number, whenever total assets, revenue or NCG is zero or missing.
C8_NoScoreOnDegenerateInput ==
    (f_pc = "scored" /\ C8_Degenerate) =>
        /\ f_z.z = None
        /\ f_z.status \in {"Dados insuficientes", "Calculo impossivel"}

\* C8 witness: revenue is zero, everything else is present and non-zero, and
\* the function has returned no score
C8_Witness ==
    /\ f_pc = "scored"
    /\ Get(f_in.data, "DRE_Receita") = Some(0)
    /\ Get(f_in.data, "Ativo_Total") = Some(1)
    /\ Get(f_in.data, "PC") # None /\ Get(f_in.data, "PNC") # None
    /\ Get(f_base.ind, "NCG") = Some(1)
    /\ f_z.z = None

\* C9: a numeric Z equals 1.887 + 0.899 X1 + 0.971 X2 - 0.444 X3 + 0.055 X4
\* - 0.980 X5 with X1 = CDG/total assets, X2 = NCG/revenue, X3 = the number
\* of the structure type, X4 = T/|NCG| and X5 = (short-term funding and
\* debt)/total assets, the funding and debt being the loans and financing
\* accounts 2.01.04 and 2.02.01 (category T_Passivo).
C9_ZFormula ==
    (f_pc = "scored" /\ f_z.z # None) =>
        LET at == f_in.data["Ativo_Total"]
            ncg == f_base.ind["NCG"]
        IN  f_z.z = ZEquation(Rat(f_base.ind["CDG"], at),
                              Rat(ncg, f_in.data["DRE_Receita"]),
                              RInt(StructureNumber(f_base.tipo)),
                              Rat(f_base.ind["T"], Abs(ncg)),
                              Rat(GetOr0(f_in.data, "T_Passivo"), at))

-----------------------------------------------------------------------------
(* src/backend/core/analysis.py: calculate_fleuriet_metrics *)

\* lines 17-29: the rows of the year with ST_CONTA in (D, DFP), else those with
\* ST_CONTA in (I, ITR)
BackendYearRows(df_company, year) ==
    LET dfp == SelectSeq(df_company, LAMBDA r : r.yr = year /\ r.st = "D")
        itr == SelectSeq(df_company, LAMBDA r : r.yr = year /\ r.st = "I")
    IN  IF dfp # <<>> THEN dfp ELSE itr

\* get_account_value (lines 32-35): the first matching row, else 0.0
get_account_value(df_filtered, account_code) ==
    LET m == SelectSeq(df_filtered, LAMBDA r : r.code = account_code)
    IN  IF m # <<>> THEN m[1].val ELSE 0

\* t = cg - ncg (line 73)
BackendTreasury(df_year_rows, cg, ncg) == cg - ncg

\* lines 41-101, for a non-empty df_year
calculate_fleuriet_metrics(df_year_rows, year) ==
    LET ac   == get_account_value(df_year_rows, "1.01")
        pcir == get_account_value(df_year_rows, "2.01")
        est  == get_account_value(df_year_rows, "1.01.04")
        cr   == get_account_value(df_year_rows, "1.01.03")
        forn == get_account_value(df_year_rows, "2.01.02")
        pnc  == get_account_value(df_year_rows, "2.02")
        pl   == get_account_value(df_year_rows, "2.03")
        ap   == get_account_value(df_year_rows, "1.02")
        ncg  == (est + cr) - forn
        cg   == ac - pcir
        cgp  == pl + pnc - ap
        t    == BackendTreasury(df_year_rows, cg, ncg)
    IN  [year |-> year, ncg |-> ncg, cg |-> cg, cgp |-> cgp, t |-> t,
         situacao_financeira |->
             IF t > 0 THEN "Saudavel (Tesouraria Positiva)"
             ELSE IF t < 0 THEN "Problematica (Tesouraria Negativa)"
             ELSE "Equilibrada (Tesouraria Zero)"]

-----------------------------------------------------------------------------
(* run_multi_year_analysis, both variants *)

\* the columns of the statement-row table read from financial_data
BaseCols == {"CD_CVM", "DENOM_CIA", "DT_REFER", "CD_CONTA", "VL_CONTA", "ST_CONTA"}

\* account codes of the rows of the model
RowCodes == {" 2.03 ", "1.01", "1.01.03", "2.03", "3.01"}

\* rank of an account code in ascending CD_CONTA order
CodeRank(c) ==
    CASE c = " 2.03 " -> 0 [] c = "1.01" -> 1 [] c = "1.01.03" -> 2
      [] c = "2.03" -> 3 [] c = "3.01" -> 4

\* ST_CONTA DESC puts 'I' before 'D'
StRank(st) == IF st = "I" THEN 1 ELSE 2

Years == 1..MaxYears

\* the rows of the model: every amount for the balance-sheet accounts, the
\* amount 1 for revenue and for the padded equity code
Rows ==
    [yr : Years, code : RowCodes \ {" 2.03 ", "3.01"}, val : 1..MaxVal, st : {"D", "I"}]
    \cup [yr : Years, code : {" 2.03 ", "3.01"}, val : {1}, st : {"D", "I"}]

\* ORDER BY "DT_REFER" ASC, "ST_CONTA" DESC, "CD_CONTA" ASC
\* (src/backend/flask_app.py:237)
RowLeq(a, b) ==
    \/ a.yr < b.yr
    \/ a.yr = b.yr /\ StRank(a.st) < StRank(b.st)
    \/ a.yr = b.yr /\ a.st = b.st /\ CodeRank(a.code) <= CodeRank(b.code)

\* the tables the analysis can be given: at most MaxRows rows in the order of
\* the query, no row twice (DataProcessor.clean_data drops exact duplicates)
Tables ==
    UNION {{t \in [1..n -> Rows] :
              \A i, j \in 1..n : i < j => (RowLeq(t[i], t[j]) /\ t[i] # t[j])}
           : n \in 0..MaxRows}

Init ==
    /\ variant \in {"core", "backend"}
    /\ company_df \in Tables
    /\ idx = 1 /\ all_results = <<>>
    /\ df_year = None /\ reclassified = None
    /\ pc = "loop" /\ ret = None
    /\ FunIdle /\ WaccIdle /\ ExtIdle

\* company_df[company_df['DT_REFER'] == reference_date].copy()
CoreYearRows(df, year) == SelectSeq(df, LAMBDA r : r.yr = year)

\* core, lines 193-195: no row for the year, continue
CoreSkipYear ==
    /\ pc = "loop" /\ variant = "core" /\ idx \in Years
    /\ CoreYearRows(company_df, idx) = <<>>
    /\ idx' = idx + 1
    /\ UNCHANGED <<variant, company_df, all_results, df_year, reclassified, pc, ret,
                   funVars, waccVars, extVars>>

\* core, lines 197-215: the year's indicators are appended to all_results
CoreProcessYear ==
    /\ pc = "loop" /\ variant = "core" /\ idx \in Years
    /\ CoreYearRows(company_df, idx) # <<>>
    /\ LET df  == [rows |-> CoreYearRows(company_df, idx), cols |-> BaseCols]
           rd  == reclassify_and_sum(df)
           base == BaseIndicators(rd, {})
           zs  == calculate_z_score_prado(rd, base)
       IN  /\ ~AdvancedRaises(rd)
           /\ reclassified' = rd
           /\ df_year' = [df EXCEPT !.cols = reclassify_columns(df)]
           /\ all_results' = Append(all_results,
                  [year |-> idx,
                   base_indicators |-> [NCG |-> base.ind["NCG"], CDG |-> base.ind["CDG"],
                                        T |-> base.ind["T"], TipoEstrutura |-> base.tipo],
                   Z_Score |-> zs.z, Z_Risk |-> zs.status,
                   structure |-> base.tipo])
    /\ idx' = idx + 1
    /\ UNCHANGED <<variant, company_df, pc, ret, funVars, waccVars, extVars>>

\* core, lines 216-218: an exception in the year's computation ends the
\* analysis with (None, error)
CoreYearError ==
    /\ pc = "loop" /\ variant = "core" /\ idx \in Years
    /\ CoreYearRows(company_df, idx) # <<>>
    /\ LET df == [rows |-> CoreYearRows(company_df, idx), cols |-> BaseCols]
           rd == reclassify_and_sum(df)
       IN  /\ AdvancedRaises(rd)
           /\ reclassified' = rd
           /\ df_year' = [df EXCEPT !.cols = reclassify_columns(df)]
    /\ pc' = "returned"
    /\ ret' = [result |-> None, error |-> "Erro ao analisar o ano"]
    /\ UNCHANGED <<variant, company_df, idx, all_results, funVars, waccVars, extVars>>

\* chart_data of the core variant (lines 223-228)
CoreChart(results) ==
    [labels |-> [i \in 1..Len(results) |-> results[i].year],
     ncg    |-> [i \in 1..Len(results) |-> results[i].base_indicators.NCG],
     cdg    |-> [i \in 1..Len(results) |-> results[i].base_indicators.CDG],
     t      |-> [i \in 1..Len(results) |-> results[i].base_indicators.T]]

\* core, lines 220-237: after the loop
CoreFinish ==
    /\ pc = "loop" /\ variant = "core" /\ idx > MaxYears
    /\ pc' = "returned"
    /\ ret' = IF all_results = <<>>
              THEN [result |-> None, error |-> "Nao foram encontrados dados anuais"]
              ELSE [result |-> [yearly_results |-> all_results,
                                chart_data |-> CoreChart(all_results)],
                    error |-> None]
    /\ UNCHANGED <<variant, company_df, idx, all_results, df_year, reclassified,
                   funVars, waccVars, extVars>>

\* backend, lines 116-125: calculate_fleuriet_metrics returned {}
BackendSkipYear ==
    /\ pc = "loop" /\ variant = "backend" /\ idx \in Years
    /\ BackendYearRows(company_df, idx) = <<>>
    /\ idx' = idx + 1
    /\ UNCHANGED <<variant, company_df, all_results, df_year, reclassified, pc, ret,
                   funVars, waccVars, extVars>>

\* backend, lines 116-123: the year's metrics are appended
BackendProcessYear ==
    /\ pc = "loop" /\ variant = "backend" /\ idx \in Years
    /\ BackendYearRows(company_df, idx) # <<>>
    /\ all_results' = Append(all_results,
           calculate_fleuriet_metrics(BackendYearRows(company_df, idx), idx))
    /\ idx' = idx + 1
    /\ UNCHANGED <<variant, company_df, df_year, reclassified, pc, ret, funVars, waccVars, extVars>>

\* chart_data of the backend variant (lines 119-123): 'cdg' is filled from 'cg'
BackendChart(results) ==
    [labels |-> [i \in 1..Len(results) |-> results[i].year],
     ncg    |-> [i \in 1..Len(results) |-> results[i].ncg],
     cdg    |-> [i \in 1..Len(results) |-> results[i].cg],
     t      |-> [i \in 1..Len(results) |-> results[i].t]]

\* backend, lines 127-152: after the loop
BackendFinish ==
    /\ pc = "loop" /\ variant = "backend" /\ idx > MaxYears
    /\ pc' = "returned"
    /\ ret' = IF all_results = <<>>
              THEN [result |-> None, error |-> "Nenhum resultado Fleuriet valido"]
              ELSE [result |-> [yearly_results |-> all_results,
                                chart_data |-> BackendChart(all_results)],
                    error |-> None]
    /\ UNCHANGED <<variant, company_df, idx, all_results, df_year, reclassified,
                   funVars, waccVars, extVars>>

Next ==
    \/ CoreSkipYear \/ CoreProcessYear \/ CoreYearError \/ CoreFinish
    \/ BackendSkipYear \/ BackendProcessYear \/ BackendFinish

Spec == Init /\ [][Next]_vars

-----------------------------------------------------------------------------
(* Claims on run_multi_year_analysis *)

HasResult == pc = "returned" /\ ret.result # None

\* C1: for every year with a result, in both variants, the reported T equals
\* the reported CDG minus the reported NCG.
C1_TreasuryIdentity ==
    /\ \A i \in 1..Len(all_results) :
          LET r == all_results[i]
          IN  IF variant = "core"
              THEN r.base_indicators.T = r.base_indicators.CDG - r.base_indicators.NCG
              ELSE r.t = r.cg - r.ncg
    /\ HasResult =>
          LET c == ret.result.chart_data
          IN  \A i \in 1..Len(c.labels) : c.t[i] = c.cdg[i] - c.ncg[i]

\* C1 witness: the core analysis returned two years, one with a positive and
\* one with a negative treasury balance
C1_Witness ==
    /\ HasResult /\ variant = "core"
    /\ Len(ret.result.chart_data.t) = 2
    /\ ret.result.chart_data.t[1] > 0
    /\ ret.result.chart_data.t[2] < 0

\* the total of the rows of one account in one year of the table
RECURSIVE AccountTotal(_, _, _)
AccountTotal(rows, year, code) ==
    IF rows = <<>> THEN 0
    ELSE (IF Head(rows).yr = year /\ Head(rows).code = code THEN Head(rows).val ELSE 0)
         + AccountTotal(Tail(rows), year, code)

\* C3: the value reported as CDG for a period equals (equity + non-current
\* liabilities) - non-current assets of that period, in both variants.
C3_CdgFormula ==
    HasResult =>
        LET c == ret.result.chart_data
        IN  \A i \in 1..Len(c.labels) :
                c.cdg[i] = AccountTotal(company_df, c.labels[i], "2.03")
                           + AccountTotal(company_df, c.labels[i], "2.02")
                           - AccountTotal(company_df, c.labels[i], "1.02")

\* the sum of the values of the rows of a category, taken row by row from the
\* end of the table
RECURSIVE CategoryTotal(_, _, _)
CategoryTotal(rows, n, cat) ==
    IF n = 0 THEN 0
    ELSE CategoryTotal(rows, n - 1, cat)
         + (IF Strip(rows[n].code) \in DOMAIN FLEURIET_ACCOUNT_MAPPING
            THEN (IF FLEURIET_ACCOUNT_MAPPING[Strip(rows[n].code)] = cat THEN rows[n].val ELSE 0)
            ELSE (IF cat = "Outros" THEN rows[n].val ELSE 0))

Categories ==
    {FLEURIET_ACCOUNT_MAPPING[c] : c \in DOMAIN FLEURIET_ACCOUNT_MAPPING} \cup {"Outros"}

\* C5: reclassify_and_sum returns, for each category, the sum of the values of
\* all rows whose code maps to it; rows with an unmapped code are summed under
\* 'Outros'; a category without rows has no entry.
C5_ReclassifySums ==
    reclassified # None =>
        \A cat \in Categories :
            LET n == Len(df_year.rows)
                present == \E i \in 1..n :
                             IF Strip(df_year.rows[i].code) \in DOMAIN FLEURIET_ACCOUNT_MAPPING
                             THEN FLEURIET_ACCOUNT_MAPPING[Strip(df_year.rows[i].code)] = cat
                             ELSE cat = "Outros"
            IN  /\ (cat \in DOMAIN reclassified) <=> present
                /\ present => reclassified[cat] = CategoryTotal(df_year.rows, n, cat)

\* C5 witness: two rows of one category were summed
C5_Witness ==
    /\ reclassified # None
    /\ Len(df_year.rows) = 2
    /\ df_year.rows[1].code = "1.01.03" /\ df_year.rows[2].code = "1.01.03"
    /\ df_year.rows[1].val = 1 /\ df_year.rows[2].val = 2
    /\ reclassified = [AC_Clientes |-> 3]

\* the row that stands for an account in a period: a consolidated ('D') row
\* before an interim ('I') row, and among those the one filed last (rows of
\* equal key are held in filing order)
IsPreferred(rows, i) ==
    \A j \in 1..Len(rows) :
        (j # i /\ rows[j].code = rows[i].code) =>
            \/ rows[i].st = "D" /\ rows[j].st = "I"
            \/ rows[i].st = rows[j].st /\ j < i

RECURSIVE KeepPreferred(_, _)
KeepPreferred(rows, i) ==
    IF i > Len(rows) THEN <<>>
    ELSE (IF IsPreferred(rows, i) THEN <<rows[i]>> ELSE <<>>) \o KeepPreferred(rows, i + 1)

\* C6: of several rows for one (company, period, account code) exactly one
\* contributes to the derived values: the most recently filed, a consolidated
\* row before an interim one.
C6_OneRowPerAccount ==
    \A i \in 1..Len(all_results) :
        LET r    == all_results[i]
            kept == KeepPreferred(CoreYearRows(company_df, r.year), 1)
        IN  IF variant = "core"
            THEN LET e == calculate_fleuriet_indicators(GroupBySum(kept, EmptyDict))
                 IN  /\ r.base_indicators.NCG = e.NCG
                     /\ r.base_indicators.CDG = e.CDG
                     /\ r.base_indicators.T = e.T
            ELSE r = calculate_fleuriet_metrics(kept, r.year)

\* C7: the computation steps leave their inputs as they were: the table
\* handed to reclassify_and_sum has the columns it had before the call.
C7_InputsUnchanged ==
    df_year # None => df_year.cols = BaseCols

\* C15: in the core variant no division site raises: every year that has rows
\* is in the returned result, whatever accounts (revenue, cost of goods,
\* receivables, inventory, suppliers) are zero or absent in that year.
C15_DivisionsNeverRaise ==
    (pc = "returned" /\ variant = "core") =>
        \A y \in Years :
            CoreYearRows(company_df, y) # <<>> =>
                /\ ret.result # None
                /\ \E i \in 1..Len(ret.result.yearly_results) :
                       ret.result.yearly_results[i].year = y

-----------------------------------------------------------------------------
(* WACC: FinancialMetricsCalculator._calculate_wacc                          *)
(* (src/backend/core/financial_metrics_calculator.py) and the WACC step of   *)
(* processar_valuation_empresa (src/core/valuation_analysis.py)              *)

\* self.tax_rate = 0.34
TaxRate == Milli(340)

\* _calculate_cost_of_equity_ke with the default risk-free rate 0.10, the
\* market risk premium 0.06 and beta
CalculatorKe(beta) == RAdd(Milli(100), RMul(beta, Milli(60)))

\* _calculate_cost_of_debt_kd: risk-free rate * 1.2 with debt, else 0.05
CalculatorKd(total_debt) ==
    IF total_debt > 0 THEN RMul(Milli(100), Milli(1200)) ELSE Milli(50)

\* percent_ke = data.equity / total_capital (line 86)
percent_ke(equity, total_debt) == Rat(equity, equity + total_debt)

\* percent_kd = data.total_debt / total_capital (line 87)
percent_kd(equity, total_debt) == Rat(total_debt, equity + total_debt)

\* _calculate_wacc(data, beta): NaN when total capital <= 0
calculate_wacc(equity, total_debt, beta) ==
    IF equity + total_debt <= 0
    THEN [status |-> "nan", w_e |-> None, w_d |-> None, wacc |-> None]
    ELSE LET pe == percent_ke(equity, total_debt)
             pd == percent_kd(equity, total_debt)
         IN  [status |-> "ok", w_e |-> pe, w_d |-> pd,
              wacc |-> RAdd(RMul(CalculatorKe(beta), pe),
                            RMul(RMul(CalculatorKd(total_debt),
                                      RSub(RInt(1), TaxRate)), pd))]

\* ke = risk_free_rate + beta * premio_risco_mercado with the defaults of
\* obter_dados_mercado (0.105 and 0.08)
ValuationKe(beta) == RAdd(Milli(105), RMul(beta, Milli(80)))

RMin(a, b) == IF RLeq(a, b) THEN a ELSE b

\* line 273
ValuationKd(despesa_financeira, divida_total, ke) ==
    IF divida_total > 0 /\ despesa_financeira > 0
    THEN RMin(Rat(despesa_financeira, divida_total), Milli(350))
    ELSE RMul(ke, Milli(700))

\* w_e = market_cap / valor_total (line 279)
ValuationWe(market_cap, divida_total) == Rat(market_cap, market_cap + divida_total)

\* the debt weight taken as debt over market capitalisation
ValuationWdOverEquity(market_cap, divida_total) == Rat(divida_total, market_cap)

\* w_d = divida_total / valor_total (line 280)
ValuationWd(market_cap, divida_total) == Rat(divida_total, market_cap + divida_total)

\* lines 263-285 of processar_valuation_empresa: None when the total value is
\* not positive or the WACC is outside (0.01, 0.40)
valuation_wacc(market_cap, divida_total, despesa_financeira, aliquota_efetiva, beta) ==
    IF market_cap + divida_total <= 0
    THEN [status |-> "none", w_e |-> None, w_d |-> None, wacc |-> None]
    ELSE LET ke == ValuationKe(beta)
             kd == ValuationKd(despesa_financeira, divida_total, ke)
             we == ValuationWe(market_cap, divida_total)
             wd == ValuationWd(market_cap, divida_total)
             wacc == RAdd(RMul(we, ke),
                          RMul(RMul(wd, kd), RSub(RInt(1), aliquota_efetiva)))
         IN  [status |-> IF RLeq(wacc, Milli(10)) \/ RLeq(Milli(400), wacc)
                         THEN "none" ELSE "ok",
              w_e |-> we, w_d |-> wd, wacc |-> wacc]

\* the effective tax rates of the model: the clamp bounds of line 243 and the
\* statutory default of line 242
TaxRates == {Milli(150), Milli(340), Milli(450)}

\* _calculate_wacc takes the book equity and debt of CompanyFinancialData;
\* processar_valuation_empresa reaches its WACC step with market_cap > 0
\* (line 231)
InitWacc ==
    /\ w_in \in
          [variant : {"calculator"}, equity : -MaxCap..MaxCap, debt : -MaxCap..MaxCap,
           despesa : {0}, aliquota : {Milli(340)}]
          \cup
          [variant : {"valuation"}, equity : 1..MaxCap, debt : -MaxCap..MaxCap,
           despesa : 0..1, aliquota : TaxRates]
    /\ w_out = None /\ w_pc = "input"
    /\ RunIdle /\ FunIdle /\ ExtIdle

\* wacc = self._calculate_wacc(data, beta), beta = 1.0 as AdvancedRanking passes it
CalculatorWacc ==
    /\ w_pc = "input" /\ w_in.variant = "calculator"
    /\ w_out' = calculate_wacc(w_in.equity, w_in.debt, RInt(1))
    /\ w_pc' = "done"
    /\ UNCHANGED <<w_in, runVars, funVars, extVars>>

\* the WACC step of processar_valuation_empresa, beta at its default 1.0
ValuationWacc ==
    /\ w_pc = "input" /\ w_in.variant = "valuation"
    /\ w_out' = valuation_wacc(w_in.equity, w_in.debt, w_in.despesa, w_in.aliquota, RInt(1))
    /\ w_pc' = "done"
    /\ UNCHANGED <<w_in, runVars, funVars, extVars>>

NextWacc == CalculatorWacc \/ ValuationWacc

SpecWacc == InitWacc /\ [][NextWacc]_vars

\* C10: whenever total capital (equity + debt) is > 0, the equity weight and
\* the debt weight used in the WACC computation sum to exactly 1, in both
\* computations.
C10_WeightsSumToOne ==
    (w_pc = "done" /\ w_in.equity + w_in.debt > 0) =>
        /\ w_out.w_e # None /\ w_out.w_d # None
        /\ RAdd(w_out.w_e, w_out.w_d) = RInt(1)

\* C10 witness: the valuation variant computed weights 3/4 and 1/4
C10_Witness ==
    /\ w_pc = "done" /\ w_in.variant = "valuation"
    /\ w_in.equity = 3 /\ w_in.debt = 1
    /\ w_out.w_e = <<3, 4>> /\ w_out.w_d = <<1, 4>>

-----------------------------------------------------------------------------
(* FinancialMetricsCalculator (src/backend/core/financial_metrics_calculator.py) *)
(* on a CompanyFinancialData record                                          *)

\* a float that is a number
Num(r) == [k |-> "num", v |-> r]
\* numpy.nan
NaN == [k |-> "nan", v |-> <<0, 1>>]
\* None / JSON null in a report
Null == [k |-> "null", v |-> <<0, 1>>]

\* np.isnan(x)
IsNan(x) == x.k = "nan"

\* a / b on rationals, b # 0
RDiv(a, b) == RMul(a, Rat(b[2], b[1]))

\* _calculate_nopat: ebit * (1 - tax_rate)
calculate_nopat(ebit) == RMul(RInt(ebit), RSub(RInt(1), TaxRate))

\* _calculate_ncg: accounts_receivable + inventory - accounts_payable
calculate_ncg(data) ==
    data.accounts_receivable + data.inventory - data.accounts_payable

\* _calculate_capital_employed: imobilizado + ncg
calculate_capital_employed(data) ==
    data.property_plant_equipment + calculate_ncg(data)

\* the float _calculate_wacc returns: nan when total capital <= 0
WaccFloat(w) == IF w.status = "nan" THEN NaN ELSE Num(w.wacc)

\* _calculate_wacc(data, beta)
wacc_of(data, beta) == WaccFloat(calculate_wacc(data.equity, data.total_debt, beta))

\* _calculate_roce: nan when capital employed is 0, else nopat / capital employed
calculate_roce(data, capital_employed) ==
    IF capital_employed = 0 THEN NaN
    ELSE Num(RDiv(calculate_nopat(data.ebit), RInt(capital_employed)))

\* the guard of calculate_eva and calculate_efv that lets a negative capital
\* employed through
CapitalEmployedZeroOnly(capital_employed) == capital_employed = 0

\* if capital_employed <= 0 (lines 111 and 140)
CapitalEmployedInvalid(capital_employed) == capital_employed <= 0

\* lines 111-123 of calculate_eva, from the three values it computed
EvaOf(capital_employed, wacc, roce) ==
    IF CapitalEmployedInvalid(capital_employed) THEN [abs |-> NaN, pct |-> NaN]
    ELSE IF IsNan(wacc) \/ IsNan(roce) THEN [abs |-> NaN, pct |-> NaN]
    ELSE [abs |-> Num(RMul(RInt(capital_employed), RSub(roce.v, wacc.v))),
          pct |-> Num(RMul(RSub(roce.v, wacc.v), RInt(100)))]

\* calculate_eva(data, beta): (eva_abs, eva_pct)
calculate_eva(data, beta) ==
    EvaOf(calculate_capital_employed(data), wacc_of(data, beta),
          calculate_roce(data, calculate_capital_employed(data)))

\* lines 154-157 of calculate_riqueza_atual: eva_abs / wacc, nan when either is
\* nan or wacc is 0
RiquezaAtualOf(eva_abs, wacc) ==
    IF IsNan(eva_abs) \/ IsNan(wacc) \/ wacc.v[1] = 0 THEN NaN
    ELSE Num(RDiv(eva_abs.v, wacc.v))

\* calculate_riqueza_atual(data, beta)
calculate_riqueza_atual(data, beta) ==
    RiquezaAtualOf(calculate_eva(data, beta).abs, wacc_of(data, beta))

\* np.isnan(data.market_cap) raises TypeError on None (line 171); market_cap
\* is None when the record was rebuilt from a stored report whose value was
\* null
MetricsRaise(data) == data.market_cap = None

\* calculate_riqueza_futura: (market_cap + total_debt) - capital_employed
calculate_riqueza_futura(data) ==
    Num(RInt(data.market_cap[1] + data.total_debt - calculate_capital_employed(data)))

\* lines 133-145 of calculate_efv, from the values it computed
EfvOf(riqueza_atual_abs, riqueza_futura_esperada_abs, capital_employed) ==
    IF IsNan(riqueza_atual_abs) \/ IsNan(riqueza_futura_esperada_abs)
    THEN [abs |-> NaN, pct |-> NaN]
    ELSE IF CapitalEmployedInvalid(capital_employed) THEN [abs |-> NaN, pct |-> NaN]
    ELSE [abs |-> Num(RSub(riqueza_futura_esperada_abs.v, riqueza_atual_abs.v)),
          pct |-> Num(RMul(RDiv(RSub(riqueza_futura_esperada_abs.v, riqueza_atual_abs.v),
                                RInt(capital_employed)), RInt(100)))]

\* calculate_efv(data, beta): (efv_abs, efv_pct)
calculate_efv(data, beta) ==
    EfvOf(calculate_riqueza_atual(data, beta), calculate_riqueza_futura(data),
          calculate_capital_employed(data))

\* calculate_upside(data, efv_abs) if not np.isnan(efv_abs) else np.nan
calculate_upside(data, efv_abs) ==
    IF IsNan(efv_abs) THEN NaN
    ELSE IF data.market_cap[1] <= 0 THEN NaN
    ELSE Num(RMul(RDiv(efv_abs.v, RInt(data.market_cap[1])), RInt(100)))

\* what the callers of the calculator compute for a company with beta = 1.0:
\* wacc, (eva_abs, eva_pct), (efv_abs, efv_pct), riqueza_atual, riqueza_futura
\* and upside
MetricsRecord(data, wacc, eva, efv, riqueza_atual, riqueza_futura) ==
    [ticker |-> data.ticker, wacc |-> wacc,
     eva_abs |-> eva.abs, eva_pct |-> eva.pct,
     efv_abs |-> efv.abs, efv_pct |-> efv.pct,
     riqueza_atual |-> riqueza_atual, riqueza_futura |-> riqueza_futura,
     upside |-> calculate_upside(data, efv.abs)]

CalculatorMetrics(data) ==
    MetricsRecord(data, wacc_of(data, RInt(1)), calculate_eva(data, RInt(1)),
                  calculate_efv(data, RInt(1)), calculate_riqueza_atual(data, RInt(1)),
                  calculate_riqueza_futura(data))

-----------------------------------------------------------------------------
(* CompanyRanking (src/core/company_ranking.py), AdvancedRanking            *)
(* (src/core/advanced_ranking.py) and IbovespaAnalysisSystem                 *)
(* (src/backend/core/ibovespa_analysis_system.py)                            *)

\* df[col].fillna(0)
FillNa(x) == IF IsNan(x) THEN Num(RInt(0)) ELSE x

\* clean_data_for_json on a float: NaN becomes None
clean_data_for_json(x) == IF IsNan(x) THEN Null ELSE x

\* score_combinado of _calculate_all_metrics (lines 37-40)
CombinedScore(eva_pct, efv_pct, upside) ==
    RAdd(RAdd(IF IsNan(eva_pct) THEN RInt(0) ELSE RMul(eva_pct.v, Milli(400)),
              IF IsNan(efv_pct) THEN RInt(0) ELSE RMul(efv_pct.v, Milli(400))),
         IF IsNan(upside) THEN RInt(0) ELSE RMul(upside.v, Milli(200)))

\* the dict _calculate_all_metrics returns when nothing raises, from the
\* calculator's values m: a NaN wacc is replaced by 0.0 (line 28)
AllMetricsRow(m) ==
    [ticker |-> m.ticker,
     wacc_percentual |-> Num(RMul(FillNa(m.wacc).v, RInt(100))),
     eva_abs |-> m.eva_abs, eva_percentual |-> m.eva_pct,
     efv_abs |-> m.efv_abs, efv_percentual |-> m.efv_pct,
     riqueza_atual |-> m.riqueza_atual, riqueza_futura |-> m.riqueza_futura,
     upside_percentual |-> m.upside,
     combined_score |-> Num(CombinedScore(m.eva_pct, m.efv_pct, m.upside))]

\* CompanyRanking._calculate_all_metrics(data), beta = 1.0
calculate_all_metrics(data) == AllMetricsRow(CalculatorMetrics(data))

\* the fillna(0) loop of generate_ranking_report (lines 77-80): eva_abs and
\* efv_abs are not in its column list
FillReportRow(m) ==
    [m EXCEPT !.wacc_percentual = FillNa(@), !.eva_percentual = FillNa(@),
              !.efv_percentual = FillNa(@), !.riqueza_atual = FillNa(@),
              !.riqueza_futura = FillNa(@), !.upside_percentual = FillNa(@),
              !.combined_score = FillNa(@)]

\* generate_ranking_report: one row per company whose metrics did not raise
RECURSIVE generate_ranking_report(_)
generate_ranking_report(companies) ==
    IF companies = <<>> THEN <<>>
    ELSE IF MetricsRaise(Head(companies))
    THEN generate_ranking_report(Tail(companies))
    ELSE <<FillReportRow(calculate_all_metrics(Head(companies)))>>
         \o generate_ranking_report(Tail(companies))

\* insertion of a row into a list sorted by descending key, after the rows
\* whose key is not smaller
RECURSIVE InsertDesc(_, _, _)
InsertDesc(sorted, r, col) ==
    IF sorted = <<>> THEN <<r>>
    ELSE IF RLess(Head(sorted)[col].v, r[col].v) THEN <<r>> \o sorted
    ELSE <<Head(sorted)>> \o InsertDesc(Tail(sorted), r, col)

\* df.sort_values(by=col, ascending=False) on a frame without NaN
RECURSIVE SortDescFrom(_, _, _)
SortDescFrom(rows, acc, col) ==
    IF rows = <<>> THEN acc
    ELSE SortDescFrom(Tail(rows), InsertDesc(acc, Head(rows), col), col)

sort_values_desc(rows, col) == SortDescFrom(rows, <<>>, col)

\* .head(n)
HeadN(rows, n) == SubSeq(rows, 1, IF Len(rows) < n THEN Len(rows) ELSE n)

TickersOf(rows) == [i \in 1..Len(rows) |-> rows[i].ticker]

\* simple_combined_score (lines 319-323)
SimpleCombinedScore(e, f, u) ==
    Num(RAdd(RAdd(RMul(e.v, Milli(400)), RMul(f.v, Milli(400))), RMul(u.v, Milli(200))))

\* the row _prepare_data_for_ml builds from the calculator's values m, after
\* df.fillna(0) (lines 133-165)
MlRow(m) ==
    [ticker |-> m.ticker, eva_pct |-> FillNa(m.eva_pct),
     efv_pct |-> FillNa(m.efv_pct), upside_pct |-> FillNa(m.upside),
     simple_combined_score |->
         SimpleCombinedScore(FillNa(m.eva_pct), FillNa(m.efv_pct), FillNa(m.upside))]

\* _prepare_data_for_ml: a row for every company of the batch
prepare_data_for_ml(companies) ==
    [i \in 1..Len(companies) |-> MlRow(CalculatorMetrics(companies[i]))]

\* row[col] > min
Above(r, col, min) == RLess(RInt(min), r[col].v)

\* lines 303-339 of identify_opportunities on the frame df
OpportunitiesOf(df) ==
    [value_creators |-> TickersOf(SelectSeq(df, LAMBDA r : Above(r, "eva_pct", 0))),
     growth_potential |-> TickersOf(SelectSeq(df, LAMBDA r : Above(r, "efv_pct", 0))),
     undervalued |-> TickersOf(SelectSeq(df, LAMBDA r : Above(r, "upside_pct", 20))),
     best_opportunities |->
         TickersOf(HeadN(sort_values_desc(df, "simple_combined_score"), 5))]

\* identify_opportunities(companies_data)
identify_opportunities(companies) == OpportunitiesOf(prepare_data_for_ml(companies))

\* report_df.sort_values(by=col, ascending=False).head(10)
Top10(df, col) == TickersOf(HeadN(sort_values_desc(df, col), 10))

\* clean_data_for_json(report_df.to_dict(orient='records'))
CleanRows(df) ==
    [i \in 1..Len(df) |->
        [c \in DOMAIN df[i] |->
            IF c = "ticker" THEN df[i][c] ELSE clean_data_for_json(df[i][c])]]

\* the report run_complete_analysis returns (lines 228-269): rankings,
\* opportunities and the cleaned rows of report_df
FinalReport(companies, df) ==
    [kind |-> "batch", status |-> "success",
     rankings |-> [top_10_eva |-> Top10(df, "eva_percentual"),
                   top_10_efv |-> Top10(df, "efv_percentual"),
                   top_10_upside |-> Top10(df, "upside_percentual"),
                   top_10_combined |-> Top10(df, "combined_score")],
     opportunities |-> identify_opportunities(companies),
     full_report_data |-> CleanRows(df)]

\* "x if not np.isnan(x) else None"
NanToNone(x) == IF IsNan(x) THEN Null ELSE x

\* the metrics dict of get_company_analysis (lines 329-347) from the
\* calculator's values m: riqueza_atual and riqueza_futura are tested with
\* "is not None" and pass through as they are
AnalysisMetrics(m) ==
    [wacc_percentual |-> IF IsNan(m.wacc) THEN Null
                         ELSE Num(RMul(m.wacc.v, RInt(100))),
     eva_abs |-> NanToNone(m.eva_abs), eva_percentual |-> NanToNone(m.eva_pct),
     efv_abs |-> NanToNone(m.efv_abs), efv_percentual |-> NanToNone(m.efv_pct),
     riqueza_atual |-> m.riqueza_atual, riqueza_futura |-> m.riqueza_futura,
     upside_percentual |-> NanToNone(m.upside),
     combined_score |-> Null]

\* the dict get_company_analysis returns when nothing raises
CompanyAnalysis(data) ==
    [kind |-> "single", status |-> "success", ticker |-> data.ticker,
     metrics |-> AnalysisMetrics(CalculatorMetrics(data))]

\* the tickers of a batch, in the order of the companies_data dict
Tickers == <<"AAAA3", "BBBB4">>

\* CompanyFinancialData of a ticker: market_cap is a number, or None when the
\* record is rebuilt from stored metrics whose market_cap is null
\* (src/core/db_manager.py:221)
CompanyData(t) ==
    [ticker : {t}, market_cap : {None, Some(0), Some(1)},
     ebit : -MaxEbit..MaxEbit, equity : 0..1, total_debt : 0..1,
     property_plant_equipment : 0..1, accounts_receivable : {0}, inventory : {0},
     accounts_payable : 0..1]

\* the batches _get_companies_data_for_valuation can return: none, one or
\* two companies
Batches ==
    {<<>>}
    \cup {<<a>> : a \in CompanyData(Tickers[1])}
    \cup {<<a, b>> : a \in CompanyData(Tickers[1]), b \in CompanyData(Tickers[2])}

InitRank ==
    /\ companies_data \in Batches
    /\ report_df = None /\ final_report = None /\ r_pc = "collected"
    /\ RunIdle /\ FunIdle /\ WaccIdle /\ FetchIdle /\ BatchIdle /\ MoreIdle

\* run_complete_analysis, lines 184-195: the report of metrics; an empty batch
\* or an empty report returns an error dict
RunGenerateReport ==
    /\ r_pc = "collected"
    /\ IF companies_data = <<>>
       THEN /\ final_report' = [kind |-> "batch", status |-> "error"]
            /\ r_pc' = "returned"
            /\ UNCHANGED report_df
       ELSE LET df == generate_ranking_report(companies_data)
            IN  /\ report_df' = df
                /\ IF df = <<>>
                   THEN /\ final_report' = [kind |-> "batch", status |-> "error"]
                        /\ r_pc' = "returned"
                   ELSE /\ r_pc' = "report"
                        /\ UNCHANGED final_report
    /\ UNCHANGED <<companies_data, runVars, funVars, waccVars, fetchVars, batchVars, moreVars>>

\* run_complete_analysis, line 209: _prepare_data_for_ml computes the metrics
\* of every company of the batch outside any try block, so an exception leaves
\* run_complete_analysis
RunOpportunitiesRaise ==
    /\ r_pc = "report"
    /\ \E i \in 1..Len(companies_data) : MetricsRaise(companies_data[i])
    /\ r_pc' = "raised"
    /\ UNCHANGED <<companies_data, report_df, final_report,
                   runVars, funVars, waccVars, fetchVars, batchVars, moreVars>>

\* run_complete_analysis, lines 202-281: rankings, opportunities, final report
RunFinish ==
    /\ r_pc = "report"
    /\ \A i \in 1..Len(companies_data) : ~MetricsRaise(companies_data[i])
    /\ final_report' = FinalReport(companies_data, report_df)
    /\ r_pc' = "returned"
    /\ UNCHANGED <<companies_data, report_df,
                   runVars, funVars, waccVars, fetchVars, batchVars, moreVars>>

\* get_company_analysis(ticker), lines 314-355, for a company of the batch
GetCompanyAnalysis ==
    /\ r_pc = "collected"
    /\ \E i \in 1..Len(companies_data) :
          final_report' =
              IF MetricsRaise(companies_data[i])
              THEN [kind |-> "single", status |-> "error",
                    ticker |-> companies_data[i].ticker]
              ELSE CompanyAnalysis(companies_data[i])
    /\ r_pc' = "returned"
    /\ UNCHANGED <<companies_data, report_df,
                   runVars, funVars, waccVars, fetchVars, batchVars, moreVars>>

NextRank ==
    RunGenerateReport \/ RunOpportunitiesRaise \/ RunFinish \/ GetCompanyAnalysis

SpecRank == InitRank /\ [][NextRank]_vars

-----------------------------------------------------------------------------
(* Claims on the reports of run_complete_analysis and get_company_analysis  *)

\* the company of the batch with ticker t
CompanyOf(t) ==
    companies_data[CHOOSE i \in 1..Len(companies_data) : companies_data[i].ticker = t]

BatchReturned ==
    r_pc = "returned" /\ final_report.kind = "batch" /\ final_report.status = "success"

SingleReturned ==
    r_pc = "returned" /\ final_report.kind = "single" /\ final_report.status = "success"

\* a reported WACC (in percent) strictly inside the 1%-40% band
InBand(wacc_percentual) ==
    RLess(RInt(1), wacc_percentual.v) /\ RLess(wacc_percentual.v, RInt(40))

\* C11: in every report, a company whose total capital (equity + debt) is <= 0
\* carries no numeric WACC (the field is null), and every numeric WACC that a
\* report carries lies inside the 1%-40% band.
C11_WaccUndefinedOutsideBand ==
    /\ BatchReturned =>
          \A i \in 1..Len(final_report.full_report_data) :
              LET row  == final_report.full_report_data[i]
                  data == CompanyOf(row.ticker)
              IN  /\ data.equity + data.total_debt <= 0 => row.wacc_percentual = Null
                  /\ row.wacc_percentual.k = "num" => InBand(row.wacc_percentual)
    /\ SingleReturned =>
          LET w    == final_report.metrics.wacc_percentual
              data == CompanyOf(final_report.ticker)
          IN  /\ data.equity + data.total_debt <= 0 => w = Null
              /\ w.k = "num" => InBand(w)

MetricColumns ==
    [eva_abs |-> "eva_abs", eva_percentual |-> "eva_pct", efv_abs |-> "efv_abs",
     efv_percentual |-> "efv_pct", riqueza_atual |-> "riqueza_atual",
     riqueza_futura |-> "riqueza_futura", upside_percentual |-> "upside",
     wacc_percentual |-> "wacc"]

\* every metric that is NaN for the company is null in the emitted dict
UndefinedAsNull(emitted, data) ==
    \A c \in DOMAIN MetricColumns :
        IsNan(CalculatorMetrics(data)[MetricColumns[c]]) => emitted[c] = Null

\* C13: in every report returned by run_complete_analysis and by
\* get_company_analysis, a metric that is undefined (NaN) for a company is
\* emitted as null, never as a number or as NaN.
C13_UndefinedEmittedAsNull ==
    /\ BatchReturned =>
          \A i \in 1..Len(final_report.full_report_data) :
              UndefinedAsNull(final_report.full_report_data[i],
                              CompanyOf(final_report.full_report_data[i].ticker))
    /\ SingleReturned =>
          UndefinedAsNull(final_report.metrics, CompanyOf(final_report.ticker))

\* the tickers of a list all have the metric defined
AllDefined(tickers, metric) ==
    \A i \in 1..Len(tickers) : ~IsNan(CalculatorMetrics(CompanyOf(tickers[i]))[metric])

\* C14: a company whose ranking metric (EVA %, EFV %, upside %) is undefined
\* appears neither in the ranking by that metric nor in the opportunity list
\* ordered by the combined score.
C14_UndefinedExcludedFromRanking ==
    BatchReturned =>
        /\ AllDefined(final_report.rankings.top_10_eva, "eva_pct")
        /\ AllDefined(final_report.rankings.top_10_efv, "efv_pct")
        /\ AllDefined(final_report.rankings.top_10_upside, "upside")
        /\ \A i \in 1..Len(final_report.opportunities.best_opportunities) :
              LET m == CalculatorMetrics(
                           CompanyOf(final_report.opportunities.best_opportunities[i]))
              IN  ~(IsNan(m.eva_pct) /\ IsNan(m.efv_pct) /\ IsNan(m.upside))

\* C20: no failure of one company's computation leaves run_complete_analysis:
\* the run returns, and its report holds a row for every company whose
\* computation did not fail.
C20_BatchIsolation ==
    /\ r_pc # "raised"
    /\ BatchReturned =>
          \A i \in 1..Len(companies_data) :
              ~MetricsRaise(companies_data[i]) =>
                  \E j \in 1..Len(final_report.full_report_data) :
                      final_report.full_report_data[j].ticker = companies_data[i].ticker

-----------------------------------------------------------------------------
(* The retry loops of src/core/valuation_analysis.py: obter_dados_mercado,  *)
(* calcular_beta and obter_info_yfinance.  Delays are in milliseconds.       *)

\* VALUATION_CONFIG["MAX_RETRIES"]
MAX_RETRIES == 3
\* VALUATION_CONFIG["MAX_DELAY"] = 60 s
MAX_DELAY == 60000
\* VALUATION_CONFIG["MIN_DELAY"] = 0.5 s
MIN_DELAY == 500

\* random.uniform(0, 1) seconds: both ends and the middle
Jitters == {0, 500, 1000}

\* slopes stats.linregress can return
Slopes == {-1, 1, 4}

Pow2(n) == IF n = 0 THEN 1 ELSE IF n = 1 THEN 2 ELSE IF n = 2 THEN 4 ELSE 8

Min(a, b) == IF a <= b THEN a ELSE b

RMax(a, b) == IF RLeq(a, b) THEN b ELSE a

\* wait_time = min(MAX_DELAY, MIN_DELAY * (2 ** attempt) + random.uniform(0, 1))
wait_time(attempt, jitter) == Min(MAX_DELAY, MIN_DELAY * Pow2(attempt) + jitter)

\* a loop bound that allows one attempt more
AttemptsLeftInclusive(attempt) == attempt <= MAX_RETRIES

\* for attempt in range(MAX_RETRIES): the loop body runs for this attempt
AttemptsLeft(attempt) == attempt < MAX_RETRIES

\* max(0.1, min(0.67 * slope + 0.33 * 1.0, 2.5))
beta_ajustado(slope) ==
    RMax(Milli(100), RMin(RAdd(RMul(Milli(670), RInt(slope)), Milli(330)), Milli(2500)))

\* the values calcular_beta can return after a regression, by slope
BetaOf == [slope \in Slopes |-> beta_ajustado(slope)]

\* entries of q_log
Fetch(res, attempt, outcome) ==
    [kind |-> "fetch", res |-> res, attempt |-> attempt, outcome |-> outcome, wait |-> 0]

Sleep(res, attempt, wait) ==
    [kind |-> "sleep", res |-> res, attempt |-> attempt, outcome |-> "sleep", wait |-> wait]

InitFetch ==
    /\ q_fn \in {"obter_dados_mercado", "calcular_beta", "obter_info_yfinance"}
    /\ q_res = CASE q_fn = "obter_dados_mercado" -> "selic"
                 [] q_fn = "calcular_beta" -> "prices"
                 [] q_fn = "obter_info_yfinance" -> "info"
    /\ q_attempt = 0 /\ q_log = <<>>
    \* obter_dados_mercado: dados["risk_free_rate"] = 0.105 until fetched
    /\ q_ret = Num(Milli(105))
    /\ q_pc = "loop"
    /\ RunIdle /\ FunIdle /\ WaccIdle /\ RankIdle /\ BatchIdle /\ MoreIdle

\* obter_dados_mercado, lines 66-76: one attempt at the SELIC rate; a failure
\* goes straight to the next attempt
DadosSelicAttempt ==
    /\ q_pc = "loop" /\ q_fn = "obter_dados_mercado" /\ q_res = "selic"
    /\ AttemptsLeft(q_attempt)
    /\ \E outcome \in {"ok", "error", "429"} :
          /\ q_log' = Append(q_log, Fetch("selic", q_attempt, outcome))
          /\ IF outcome = "ok"
             THEN /\ q_ret' = Num(Milli(100))
                  /\ q_res' = "ibov" /\ q_attempt' = 0
             ELSE /\ q_attempt' = q_attempt + 1
                  /\ UNCHANGED <<q_ret, q_res>>
    /\ UNCHANGED <<q_fn, q_pc, runVars, funVars, waccVars, rankVars, batchVars, moreVars>>

\* obter_dados_mercado: the SELIC loop ran out of attempts
DadosSelicExhausted ==
    /\ q_pc = "loop" /\ q_fn = "obter_dados_mercado" /\ q_res = "selic"
    /\ ~AttemptsLeft(q_attempt)
    /\ q_res' = "ibov" /\ q_attempt' = 0
    /\ UNCHANGED <<q_fn, q_log, q_ret, q_pc, runVars, funVars, waccVars, rankVars, batchVars, moreVars>>

\* obter_dados_mercado, lines 79-92: one attempt at the IBOV history; an empty
\* frame or an exception goes straight to the next attempt
DadosIbovAttempt ==
    /\ q_pc = "loop" /\ q_fn = "obter_dados_mercado" /\ q_res = "ibov"
    /\ AttemptsLeft(q_attempt)
    /\ \E outcome \in {"ok", "empty", "error", "429"} :
          /\ q_log' = Append(q_log, Fetch("ibov", q_attempt, outcome))
          /\ IF outcome = "ok"
             THEN /\ q_pc' = "returned" /\ UNCHANGED q_attempt
             ELSE /\ q_attempt' = q_attempt + 1 /\ UNCHANGED q_pc
    /\ UNCHANGED <<q_fn, q_res, q_ret, runVars, funVars, waccVars, rankVars, batchVars, moreVars>>

\* obter_dados_mercado, line 94: return dados after the IBOV loop ran out
DadosReturn ==
    /\ q_pc = "loop" /\ q_fn = "obter_dados_mercado" /\ q_res = "ibov"
    /\ ~AttemptsLeft(q_attempt)
    /\ q_pc' = "returned"
    /\ UNCHANGED <<q_fn, q_res, q_attempt, q_log, q_ret,
                   runVars, funVars, waccVars, rankVars, batchVars, moreVars>>

\* calcular_beta, lines 125-126: ibov_data is empty, 1.0 without any request
BetaNoBenchmark ==
    /\ q_pc = "loop" /\ q_fn = "calcular_beta"
    /\ q_attempt = 0 /\ q_log = <<>>
    /\ q_ret' = Num(RInt(1))
    /\ q_pc' = "returned"
    /\ UNCHANGED <<q_fn, q_res, q_attempt, q_log, runVars, funVars, waccVars, rankVars, batchVars, moreVars>>

\* calcular_beta, lines 130-167: one attempt at the price history
BetaAttempt ==
    /\ q_pc = "loop" /\ q_fn = "calcular_beta"
    /\ AttemptsLeft(q_attempt)
    /\ \/ \* the regression runs (lines 152-154)
          \E slope \in Slopes :
              /\ q_log' = Append(q_log, Fetch("prices", q_attempt, "ok"))
              /\ q_ret' = Num(BetaOf[slope])
              /\ q_pc' = "returned" /\ UNCHANGED q_attempt
       \/ \* empty or short history (lines 139-140 and 149-150)
          \E outcome \in {"empty", "short"} :
              /\ q_log' = Append(q_log, Fetch("prices", q_attempt, outcome))
              /\ q_ret' = Num(RInt(1))
              /\ q_pc' = "returned" /\ UNCHANGED q_attempt
       \/ \* rate limit (lines 157-163): sleep, then the next attempt
          \E jitter \in Jitters :
              /\ q_log' = q_log \o <<Fetch("prices", q_attempt, "429"),
                                     Sleep("prices", q_attempt, wait_time(q_attempt, jitter))>>
              /\ q_attempt' = q_attempt + 1
              /\ UNCHANGED <<q_ret, q_pc>>
       \/ \* another exception (lines 164-167): 1.0 on the last attempt
          /\ q_log' = Append(q_log, Fetch("prices", q_attempt, "error"))
          /\ IF q_attempt = MAX_RETRIES - 1
             THEN /\ q_ret' = Num(RInt(1)) /\ q_pc' = "returned" /\ UNCHANGED q_attempt
             ELSE /\ q_attempt' = q_attempt + 1 /\ UNCHANGED <<q_ret, q_pc>>
    /\ UNCHANGED <<q_fn, q_res, runVars, funVars, waccVars, rankVars, batchVars, moreVars>>

\* calcular_beta: the for loop ends without a return statement having run, the
\* function returns None
BetaFallThrough ==
    /\ q_pc = "loop" /\ q_fn = "calcular_beta"
    /\ ~AttemptsLeft(q_attempt)
    /\ q_ret' = Null
    /\ q_pc' = "returned"
    /\ UNCHANGED <<q_fn, q_res, q_attempt, q_log, runVars, funVars, waccVars, rankVars, batchVars, moreVars>>

\* obter_info_yfinance, lines 177-205: one attempt; info is {} (here 0) until
\* an attempt obtains it (here 1)
InfoAttempt ==
    /\ q_pc = "loop" /\ q_fn = "obter_info_yfinance"
    /\ AttemptsLeft(q_attempt)
    /\ \/ /\ q_log' = Append(q_log, Fetch("info", q_attempt, "ok"))
          /\ q_ret' = Num(RInt(1))
          /\ q_pc' = "returned" /\ UNCHANGED q_attempt
       \/ \* info and history both empty: the next attempt follows at once
          /\ q_log' = Append(q_log, Fetch("info", q_attempt, "empty"))
          /\ q_attempt' = q_attempt + 1
          /\ UNCHANGED <<q_ret, q_pc>>
       \/ \E jitter \in Jitters :
              /\ q_log' = q_log \o <<Fetch("info", q_attempt, "429"),
                                     Sleep("info", q_attempt, wait_time(q_attempt, jitter))>>
              /\ q_attempt' = q_attempt + 1
              /\ UNCHANGED <<q_ret, q_pc>>
       \/ /\ q_log' = Append(q_log, Fetch("info", q_attempt, "error"))
          /\ IF q_attempt = MAX_RETRIES - 1
             THEN /\ q_pc' = "returned" /\ UNCHANGED q_attempt
             ELSE /\ q_attempt' = q_attempt + 1 /\ UNCHANGED q_pc
          /\ UNCHANGED q_ret
    /\ UNCHANGED <<q_fn, q_res, runVars, funVars, waccVars, rankVars, batchVars, moreVars>>

\* obter_info_yfinance, line 207: return info after the loop
InfoReturn ==
    /\ q_pc = "loop" /\ q_fn = "obter_info_yfinance"
    /\ ~AttemptsLeft(q_attempt)
    /\ q_pc' = "returned"
    /\ UNCHANGED <<q_fn, q_res, q_attempt, q_log, q_ret,
                   runVars, funVars, waccVars, rankVars, batchVars, moreVars>>

NextFetch ==
    \/ DadosSelicAttempt \/ DadosSelicExhausted \/ DadosIbovAttempt \/ DadosReturn
    \/ BetaNoBenchmark \/ BetaAttempt \/ BetaFallThrough
    \/ InfoAttempt \/ InfoReturn

SpecFetch == InitFetch /\ [][NextFetch]_vars

\* every call runs on: a fetch ends by its timeout, a sleep by its delay
SpecFetchLive == SpecFetch /\ WF_vars(NextFetch)

\* the requests made for a resource so far
FetchesOf(res) == {i \in DOMAIN q_log : q_log[i].kind = "fetch" /\ q_log[i].res = res}

Resources == {"selic", "ibov", "prices", "info"}

(* C16: calcular_beta always returns a number: the adjusted beta clamped to  *)
(* [0.1, 2.5] when the regression ran, and 1.0 in every other case,          *)
(* including when every attempt failed.                                      *)
C16_BetaAlwaysNumber ==
    (q_fn = "calcular_beta" /\ q_pc = "returned") =>
        /\ q_ret.k = "num"
        /\ RLeq(Milli(100), q_ret.v) /\ RLeq(q_ret.v, Milli(2500))
        /\ (q_log = <<>> \/ q_log[Len(q_log)].outcome # "ok") => q_ret.v = RInt(1)

C17_AttemptsBounded ==
    \A res \in Resources : Cardinality(FetchesOf(res)) <= MAX_RETRIES

(* C17: each fetch function makes at most MAX_RETRIES attempts per resource  *)
(* and then returns.                                                         *)
C17_RetriesBounded == [](C17_AttemptsBounded) /\ <>(q_pc = "returned")

C17_Witness ==
    /\ q_pc = "returned"
    /\ Cardinality(FetchesOf(q_res)) = MAX_RETRIES
    /\ q_log[Len(q_log)].outcome # "ok"

(* C18: whenever a request fails and another request for the same resource  *)
(* follows, a delay of min(MAX_DELAY, MIN_DELAY * 2^attempt + jitter) lies    *)
(* between them; no retry follows a failure immediately.                     *)
C18_BackoffBeforeRetry ==
    \A i \in DOMAIN q_log :
        (/\ q_log[i].kind = "fetch" /\ q_log[i].outcome # "ok"
         /\ \E j \in DOMAIN q_log : j > i /\ q_log[j].kind = "fetch" /\ q_log[j].res = q_log[i].res)
        => /\ q_log[i + 1].kind = "sleep"
           /\ \E jitter \in Jitters : q_log[i + 1].wait = wait_time(q_log[i].attempt, jitter)
           /\ q_log[i + 1].wait > 0

-----------------------------------------------------------------------------
(* run_full_valuation_analysis, called repeatedly within one process.  The   *)
(* process keeps the lru_cache of obter_dados_mercado between the calls.     *)

\* the market data a fetch can bring back (two different days' quotes)
MarketVals == {1, 2}

\* what a row of ticker_map leads to: a valuation (WACC and upside in
\* thousandths), None from processar_valuation_empresa, an exception raised
\* in the loop body, an excluded ticker, or no financial rows
RowKinds ==
    {[kind |-> "ok", wacc |-> 100, upside |-> 500],
     [kind |-> "none", wacc |-> 0, upside |-> 0],
     [kind |-> "raise", wacc |-> 0, upside |-> 0],
     [kind |-> "excluded", wacc |-> 0, upside |-> 0],
     [kind |-> "nodata", wacc |-> 0, upside |-> 0]}

TickerMaps == UNION {[1..n -> RowKinds] : n \in 0..MaxCompanies}

\* dict.get(key, default)
DictGet(r, key, default) == IF key \in DOMAIN r THEN r[key] ELSE default

\* the dictionary processar_valuation_empresa returns, with the keys
\* run_full_valuation_analysis adds (lines 304-319 and 374-376)
Resultado(i, row, market) ==
    [Ticker |-> i, WACC |-> row.wacc, Upside |-> row.upside, Market |-> market,
     ticker |-> i, cd_cvm |-> i]

\* lines 397-400: 0.01 < r.get('wacc', 1) < 0.40 and -0.99 < r.get('upside', 0) < 10.0
PassesFilter(r) ==
    /\ 10 < DictGet(r, "wacc", 1000) /\ DictGet(r, "wacc", 1000) < 400
    /\ -990 < DictGet(r, "upside", 0) /\ DictGet(r, "upside", 0) < 10000

InitBatch ==
    /\ b_cache = None /\ b_run = 1 /\ b_map \in TickerMaps
    /\ b_i = 0 /\ b_market = None /\ b_fetches = 0
    /\ b_used = <<>> /\ b_results = <<>> /\ b_ret = <<>>
    /\ b_pc = "start"
    /\ RunIdle /\ FunIdle /\ WaccIdle /\ RankIdle /\ FetchIdle /\ MoreIdle

\* line 343, market_data = obter_dados_mercado(): the decorated function
\* fetches and stores on a cache miss
MarketDataMiss ==
    /\ b_pc = "start" /\ b_cache = None
    /\ \E v \in MarketVals :
          /\ b_cache' = Some(v)
          /\ b_market' = Some(v)
    /\ b_fetches' = b_fetches + 1
    /\ b_i' = 1 /\ b_pc' = "loop"
    /\ UNCHANGED <<b_run, b_map, b_used, b_results, b_ret,
                   runVars, funVars, waccVars, rankVars, fetchVars, moreVars>>

\* line 343 on a cache hit: the stored dictionary is returned, nothing is fetched
MarketDataHit ==
    /\ b_pc = "start" /\ b_cache # None
    /\ b_market' = b_cache
    /\ b_i' = 1 /\ b_pc' = "loop"
    /\ UNCHANGED <<b_cache, b_run, b_map, b_fetches, b_used, b_results, b_ret,
                   runVars, funVars, waccVars, rankVars, fetchVars, moreVars>>

\* lines 347-394: one row of ticker_map
ProcessRow ==
    /\ b_pc = "loop" /\ b_i <= Len(b_map)
    /\ LET row == b_map[b_i] IN
          CASE row.kind \in {"excluded", "nodata"} ->
                   UNCHANGED <<b_used, b_results>>
            [] row.kind = "ok" ->
                   /\ b_used' = Append(b_used, b_market)
                   /\ b_results' = Append(b_results, Resultado(b_i, row, b_market[1]))
            [] OTHER ->
                   \* None is skipped (line 379); an exception is caught (383)
                   /\ b_used' = Append(b_used, b_market)
                   /\ UNCHANGED b_results
    /\ b_i' = b_i + 1
    /\ UNCHANGED <<b_cache, b_run, b_map, b_market, b_fetches, b_ret, b_pc,
                   runVars, funVars, waccVars, rankVars, fetchVars, moreVars>>

\* lines 397-407: the final filter and the return
BatchReturn ==
    /\ b_pc = "loop" /\ b_i > Len(b_map)
    /\ b_ret' = SelectSeq(b_results, PassesFilter)
    /\ b_pc' = "done"
    /\ UNCHANGED <<b_cache, b_run, b_map, b_i, b_market, b_fetches, b_used, b_results,
                   runVars, funVars, waccVars, rankVars, fetchVars, moreVars>>

\* the next call in the same process, with its own ticker_map
NextRun ==
    /\ b_pc = "done" /\ b_run < MaxRuns
    /\ b_run' = b_run + 1
    /\ b_map' \in TickerMaps
    /\ b_i' = 0 /\ b_market' = None /\ b_fetches' = 0
    /\ b_used' = <<>> /\ b_results' = <<>> /\ b_ret' = <<>>
    /\ b_pc' = "start"
    /\ UNCHANGED <<b_cache, runVars, funVars, waccVars, rankVars, fetchVars, moreVars>>

NextBatch == MarketDataMiss \/ MarketDataHit \/ ProcessRow \/ BatchReturn \/ NextRun

SpecBatch == InitBatch /\ [][NextBatch]_vars

(* C19: in every batch run the market-data fetch is performed exactly once   *)
(* for that run (not per company, not skipped by reusing an earlier run's    *)
(* result), and every company of the run is valued with that one result.     *)
C19_FetchOncePerRun ==
    (b_pc \in {"loop", "done"}) =>
        /\ b_fetches = 1
        /\ \A i \in DOMAIN b_used : b_used[i] = b_market

\* the value returned is a dictionary that carries a reason
CarriesReason(v) == IF v = <<>> THEN FALSE ELSE "message" \in DOMAIN v

(* C21: when no company could be processed, run_full_valuation_analysis      *)
(* returns an explicit empty result together with a reason.                  *)
C21_EmptyResultWithReason ==
    (b_pc = "done" /\ b_results = <<>>) => CarriesReason(b_ret)

(* C29: every result processar_valuation_empresa returned (its WACC inside   *)
(* (0.01, 0.40) and its upside inside (-0.99, 10)) passes the final filter   *)
(* and is contained in the list run_full_valuation_analysis returns.         *)
C29_ValidResultsReturned ==
    b_pc = "done" =>
        \A i \in DOMAIN b_results :
            (/\ 10 < b_results[i].WACC /\ b_results[i].WACC < 400
             /\ -990 < b_results[i].Upside /\ b_results[i].Upside < 10000)
            => \E j \in DOMAIN b_ret : b_ret[j] = b_results[i]

-----------------------------------------------------------------------------
(* processar_valuation_empresa (src/core/valuation_analysis.py) on the       *)
(* statement of one company, and the capital employed that                   *)
(* FinancialMetricsCalculator derives from the same statement                *)

\* dados["cresc_perpetuo"]
CrescPerpetuo == Milli(30)

\* dados["premio_risco_mercado"]
PremioRiscoMercado == Milli(80)

\* lines 240-243: abs(imposto_total / lucro_antes_ir), 0.34 when the profit
\* before tax sums to 0, clamped to [0.15, 0.45]
aliquota_efetiva(imposto_total, lucro_antes_ir) ==
    IF lucro_antes_ir = 0 THEN Milli(340)
    ELSE RMax(Milli(150), RMin(Rat(Abs(imposto_total), Abs(lucro_antes_ir)), Milli(450)))

\* lines 248-255: ncg + ativo_nao_circulante (account 1.02)
capital_empregado(st) ==
    (st.contas_a_receber + st.estoques - st.fornecedores) + st.ativo_nao_circulante

\* DataCollector.cvm_account_map and get_company_data: the fields of
\* CompanyFinancialData that _calculate_capital_employed reads, taken from
\* accounts 1.01.03, 1.01.04, 2.01.02 and 1.02.01 of the same statement
CollectedData(st) ==
    [accounts_receivable |-> st.contas_a_receber, inventory |-> st.estoques,
     accounts_payable |-> st.fornecedores,
     property_plant_equipment |-> st.imobilizado]

\* the firm value without the growth of the first year's EVA
ValorFirmaNoGrowth(ce, eva, wacc, g) ==
    RAdd(RInt(ce), RDiv(eva, RSub(wacc, g)))

\* line 293: capital_empregado + (eva * (1 + g)) / (wacc - g)
valor_firma(ce, eva, wacc, g) ==
    RAdd(RInt(ce), RDiv(RMul(eva, RAdd(RInt(1), g)), RSub(wacc, g)))

\* lines 295-319: fair price, upside, the final validation and the dict
ValuationDict(st, ce, nopat, roic, wacc, eva, preco_justo, upside) ==
    IF ~(RLess(Milli(-990), upside) /\ RLess(upside, RInt(10)))
    THEN None
    ELSE Some([Upside |-> upside, ROIC |-> roic, WACC |-> wacc,
               Spread |-> RSub(roic, wacc), Preco_Atual |-> st.preco_atual,
               Preco_Justo |-> preco_justo, Market_Cap |-> st.market_cap,
               EVA |-> eva, Capital_Empregado |-> ce, NOPAT |-> nopat,
               Beta |-> st.beta.v])

\* lines 295-299: the fair price from the firm value vf
ValuationPrice(st, ce, nopat, roic, wacc, eva, vf) ==
    ValuationDict(st, ce, nopat, roic, wacc, eva,
                  RDiv(RSub(vf, RInt((st.divida_cp + st.divida_lp) - st.caixa)),
                       RInt(st.n_acoes)),
                  RSub(RDiv(RDiv(RSub(vf, RInt((st.divida_cp + st.divida_lp) - st.caixa)),
                                 RInt(st.n_acoes)),
                            RInt(st.preco_atual)),
                       RInt(1)))

\* lines 283-293: the WACC band, WACC against g, EVA and the firm value
ValuationOfWacc(st, ce, nopat, roic, wacc) ==
    IF RLeq(wacc, Milli(10)) \/ RLeq(Milli(400), wacc) THEN None
    ELSE IF RLeq(wacc, CrescPerpetuo) THEN None
    ELSE ValuationPrice(st, ce, nopat, roic, wacc, RMul(RSub(roic, wacc), RInt(ce)),
                        valor_firma(ce, RMul(RSub(roic, wacc), RInt(ce)), wacc,
                                    CrescPerpetuo))

\* lines 264-281: ke, kd, the weights and the WACC
ValuationOfKe(st, aliq, ce, nopat, ke) ==
    IF st.market_cap + (st.divida_cp + st.divida_lp) <= 0 THEN None
    ELSE ValuationOfWacc(st, ce, nopat, Rat(nopat[1], nopat[2] * ce),
             RAdd(RMul(ValuationWe(st.market_cap, st.divida_cp + st.divida_lp), ke),
                  RMul(RMul(ValuationWd(st.market_cap, st.divida_cp + st.divida_lp),
                            ValuationKd(Abs(st.despesas_financeiras),
                                        st.divida_cp + st.divida_lp, ke)),
                       RSub(RInt(1), aliq))))

\* lines 245-265: NOPAT, capital employed, ROIC, beta; a beta of None makes
\* "beta * premio" raise, and the except clause of line 320 returns None
ValuationOfRate(st, aliq, ce) ==
    IF ce <= 0 THEN None
    ELSE IF st.beta = Null THEN None
    ELSE ValuationOfKe(st, aliq, ce, RMul(RInt(st.ebit), RSub(RInt(1), aliq)),
                       RAdd(st.risk_free_rate, RMul(st.beta.v, PremioRiscoMercado)))

\* processar_valuation_empresa(ticker_sa, df_empresa, market_data)
processar_valuation_empresa(st) ==
    IF st.market_cap <= 0 \/ st.preco_atual = 0 \/ st.n_acoes <= 0 THEN None
    ELSE IF st.ebit = 0 THEN None
    ELSE ValuationOfRate(st, aliquota_efetiva(st.imposto_total, st.lucro_antes_ir),
                         capital_empregado(st))

\* accounts 1.02 (non-current assets) and 1.02.01, which is part of it
NonCurrentAssets == {<<0, 0>>, <<500, 0>>, <<500, 500>>, <<1000, 0>>, <<1000, 500>>}

\* the statements, market info and market data of the model
Statements ==
    {[market_cap |-> mc, preco_atual |-> 10, n_acoes |-> 100,
      ebit |-> eb, imposto_total |-> 30, lucro_antes_ir |-> la,
      contas_a_receber |-> cr, estoques |-> 0, fornecedores |-> fo,
      ativo_nao_circulante |-> nc[1], imobilizado |-> nc[2], caixa |-> 0,
      divida_cp |-> 0, divida_lp |-> dl, despesas_financeiras |-> df,
      risk_free_rate |-> rf, beta |-> be] :
        mc \in {0, 1000}, eb \in {-100, 0, 100}, la \in {0, 100},
        cr \in {0, 500}, fo \in {0, 200}, nc \in NonCurrentAssets,
        dl \in {0, 1000}, df \in {0, 100},
        rf \in {Milli(20), Milli(42), Milli(105)},
        be \in {Null, Num(Milli(100)), Num(RInt(1))}}

InitVal ==
    /\ v_in \in Statements
    /\ v_out = None /\ v_pc = "start"
    /\ RunIdle /\ FunIdle /\ WaccIdle /\ RankIdle /\ FetchIdle /\ BatchIdle
    /\ AdvIdle /\ CacheIdle

\* resultado = processar_valuation_empresa(...)
ProcessarValuation ==
    /\ v_pc = "start"
    /\ v_out' = processar_valuation_empresa(v_in)
    /\ v_pc' = "returned"
    /\ UNCHANGED <<v_in, runVars, funVars, waccVars, rankVars, fetchVars, batchVars,
                   advVars, cacheVars>>

NextVal == ProcessarValuation

SpecVal == InitVal /\ [][NextVal]_vars

-----------------------------------------------------------------------------
(* Claims on processar_valuation_empresa *)

\* the firm value behind a returned fair price: Preco_Justo * n_acoes + net debt
FirmValueOf(r, st) ==
    RAdd(RMul(r.Preco_Justo, RInt(st.n_acoes)),
         RInt((st.divida_cp + st.divida_lp) - st.caixa))

(* C27: for the same statement, the capital employed of a valuation result   *)
(* equals the capital employed FinancialMetricsCalculator computes.          *)
C27_OneCapitalEmployed ==
    (v_pc = "returned" /\ v_out # None) =>
        v_out[1].Capital_Empregado = calculate_capital_employed(CollectedData(v_in))

(* C28: every result has WACC > g and a firm value equal to                  *)
(* capital employed + EVA * (1 + g) / (WACC - g); a company without debt     *)
(* whose cost of equity (its WACC) is <= g gets no result.                   *)
C28_PerpetuityValue ==
    v_pc = "returned" =>
        /\ v_out # None =>
              /\ RLess(CrescPerpetuo, v_out[1].WACC)
              /\ FirmValueOf(v_out[1], v_in) =
                    RAdd(RInt(v_out[1].Capital_Empregado),
                         RDiv(RMul(v_out[1].EVA, Milli(1030)),
                              RSub(v_out[1].WACC, Milli(30))))
        /\ (/\ v_in.divida_lp = 0 /\ v_in.beta # Null
            /\ RLeq(RAdd(v_in.risk_free_rate, RMul(v_in.beta.v, Milli(80))), Milli(30)))
           => v_out = None

\* C28 witness: WACC 0.05, capital employed 1000 and EVA 20 give the firm
\* value 2030
C28_Witness ==
    /\ v_pc = "returned" /\ v_out # None
    /\ v_out[1].WACC = Milli(50) /\ v_out[1].Capital_Empregado = 1000
    /\ v_out[1].EVA = RInt(20)
    /\ FirmValueOf(v_out[1], v_in) = RInt(2030)

-----------------------------------------------------------------------------
(* PortfolioOptimizer.suggest_portfolio_allocation                           *)
(* (src/core/advanced_ranking.py).  A company is given by the three metrics  *)
(* the calculator returns for it: eva_pct, efv_pct and upside.               *)

\* lines 457-463: the NaN metrics are left out; efv_pct counts 1.5 times
PortfolioScore(m) ==
    RAdd(RAdd(IF IsNan(m.eva_pct) THEN RInt(0) ELSE m.eva_pct.v,
              IF IsNan(m.efv_pct) THEN RInt(0) ELSE RMul(m.efv_pct.v, Milli(1500))),
         IF IsNan(m.upside) THEN RInt(0) ELSE m.upside.v)

\* lines 443-467: processed_data, tickers numbered in dictionary order
ScoreRows(companies) ==
    [i \in 1..Len(companies) |-> [ticker |-> i, score |-> PortfolioScore(companies[i])]]

\* df['score'].sum()
RECURSIVE SumScores(_)
SumScores(df) ==
    IF df = <<>> THEN RInt(0) ELSE RAdd(Head(df).score, SumScores(Tail(df)))

\* round(v, 4) for v >= 0: the nearest multiple of 0.0001, a tie to the even one
Round4(v) ==
    LET q == (v[1] * 10000) \div v[2]
        r == (v[1] * 10000) % v[2]
    IN  IF 2 * r > v[2] \/ (2 * r = v[2] /\ q % 2 = 1)
        THEN Rat(q + 1, 10000) ELSE Rat(q, 10000)

\* {c.ticker: 0.0 for c in companies_data.values()} (lines 479 and 487)
ZeroWeights(companies) ==
    [i \in 1..Len(companies) |-> [ticker |-> i, weight |-> RInt(0)]]

\* row['score'] / total * share for the rows of part
ShareOf(part, total, share) ==
    [i \in 1..Len(part) |->
        [ticker |-> part[i].ticker,
         weight |-> RMul(RDiv(part[i].score, total), share)]]

\* 1 / len(df) for every row (lines 515-519 and 543-547)
EqualWeights(df) ==
    [i \in 1..Len(df) |-> [ticker |-> df[i].ticker, weight |-> Rat(1, Len(df))]]

\* lines 495-519 and 523-547: the first top_n rows share "share" of the
\* portfolio, the remaining rows the rest
SplitWeights(top, rest, share) ==
    IF RLess(RInt(0), SumScores(top))
    THEN ShareOf(top, SumScores(top), share)
         \o (IF RLess(RInt(0), SumScores(rest))
             THEN ShareOf(rest, SumScores(rest), RSub(RInt(1), share))
             ELSE <<>>)
    ELSE EqualWeights(top \o rest)

RECURSIVE SumWeights(_)
SumWeights(ws) ==
    IF ws = <<>> THEN RInt(0) ELSE RAdd(Head(ws).weight, SumWeights(Tail(ws)))

\* lines 557-567: division by the sum of the weights, then round(v, 4)
NormalizeAndRound(ws, current_sum) ==
    [i \in 1..Len(ws) |->
        [ticker |-> ws[i].ticker,
         weight |-> Round4(IF RLess(RInt(0), current_sum)
                           THEN RDiv(ws[i].weight, current_sum)
                           ELSE ws[i].weight)]]

\* lines 491-553: the weights of the profile over the positive-score rows df
ProfileWeights(df, profile) ==
    IF profile = "conservative"
    THEN SplitWeights(SubSeq(df, 1, Min(Len(df), 5)),
                      SubSeq(df, Min(Len(df), 5) + 1, Len(df)), Milli(700))
    ELSE IF profile = "aggressive"
    THEN SplitWeights(SubSeq(df, 1, Min(Len(df), 3)),
                      SubSeq(df, Min(Len(df), 3) + 1, Len(df)), Milli(800))
    ELSE ShareOf(df, SumScores(df), RInt(1))

\* lines 475-567 on the rows with a positive score
AllocationOf(companies, df, profile) ==
    IF df = <<>> THEN ZeroWeights(companies)
    ELSE IF SumScores(df) = RInt(0) THEN ZeroWeights(companies)
    ELSE NormalizeAndRound(ProfileWeights(df, profile),
                           SumWeights(ProfileWeights(df, profile)))

\* suggest_portfolio_allocation(companies_data, profile)
suggest_portfolio_allocation(companies, profile) ==
    AllocationOf(companies,
                 SelectSeq(ScoreRows(companies), LAMBDA r : RLess(RInt(0), r.score)),
                 profile)

Profiles == {"conservative", "moderate", "aggressive"}

\* the metrics of a company: scores 0, 0, 10, 30, 30 and -10
PortfolioMetrics ==
    {[eva_pct |-> NaN, efv_pct |-> NaN, upside |-> NaN],
     [eva_pct |-> Num(RInt(0)), efv_pct |-> Num(RInt(0)), upside |-> NaN],
     [eva_pct |-> Num(RInt(10)), efv_pct |-> NaN, upside |-> NaN],
     [eva_pct |-> Num(RInt(30)), efv_pct |-> NaN, upside |-> NaN],
     [eva_pct |-> Num(RInt(0)), efv_pct |-> Num(RInt(20)), upside |-> Num(RInt(0))],
     [eva_pct |-> Num(RInt(-10)), efv_pct |-> NaN, upside |-> NaN]}

InitPortfolio ==
    /\ a_in \in [fn : {"suggest_portfolio_allocation"}, profile : Profiles,
                 companies : UNION {[1..n -> PortfolioMetrics] : n \in 0..MaxPortfolio}]
    /\ a_out = None /\ a_pc = "start"
    /\ RunIdle /\ FunIdle /\ WaccIdle /\ RankIdle /\ FetchIdle /\ BatchIdle
    /\ ValIdle /\ CacheIdle

SuggestPortfolioAllocation ==
    /\ a_pc = "start" /\ a_in.fn = "suggest_portfolio_allocation"
    /\ a_out' = suggest_portfolio_allocation(a_in.companies, a_in.profile)
    /\ a_pc' = "returned"
    /\ UNCHANGED <<a_in, runVars, funVars, waccVars, rankVars, fetchVars, batchVars,
                   valVars, cacheVars>>

NextPortfolio == SuggestPortfolioAllocation

SpecPortfolio == InitPortfolio /\ [][NextPortfolio]_vars

\* the score of company i of the call
ScoreOfCompany(i) == PortfolioScore(a_in.companies[i])

PortfolioReturned == a_pc = "returned" /\ a_in.fn = "suggest_portfolio_allocation"

(* C22: when at least one company has a positive score, the returned weights *)
(* lie in [0,1], go only to companies with a positive score and sum to       *)
(* exactly 1; in the default profile each weight is score / sum of the       *)
(* included scores.                                                          *)
C22_WeightsAreDistribution ==
    (/\ PortfolioReturned
     /\ \E i \in DOMAIN a_in.companies : RLess(RInt(0), ScoreOfCompany(i)))
    => /\ \A j \in DOMAIN a_out :
             /\ RLeq(RInt(0), a_out[j].weight) /\ RLeq(a_out[j].weight, RInt(1))
             /\ RLess(RInt(0), ScoreOfCompany(a_out[j].ticker))
       /\ SumWeights(a_out) = RInt(1)

(* C23: when the total score of the companies is zero, every one of the n    *)
(* companies receives the weight 1/n.                                        *)
C23_EqualWeightFallback ==
    (/\ PortfolioReturned /\ a_in.companies # <<>>
     /\ \A i \in DOMAIN a_in.companies : ScoreOfCompany(i) = RInt(0))
    => /\ Len(a_out) = Len(a_in.companies)
       /\ \A j \in DOMAIN a_out : a_out[j].weight = Rat(1, Len(a_in.companies))

-----------------------------------------------------------------------------
(* RankingCriteria.normalize_weights and AdvancedRanking.custom_rank_companies *)
(* (src/core/advanced_ranking.py).  A company is given by its five raw       *)
(* metrics.                                                                  *)

WeightNames ==
    {"eva_weight", "efv_weight", "upside_weight", "profitability_weight",
     "liquidity_weight"}

\* lines 61-63
TotalWeight(c) ==
    RAdd(RAdd(RAdd(RAdd(c.eva_weight, c.efv_weight), c.upside_weight),
              c.profitability_weight), c.liquidity_weight)

\* lines 65-79 with the total computed: the weights are divided by a positive
\* total and are left as they are otherwise
NormalizedBy(c, total) ==
    IF RLess(RInt(0), total) THEN [w \in WeightNames |-> RDiv(c[w], total)] ELSE c

\* RankingCriteria.normalize_weights
normalize_weights(c) == NormalizedBy(c, TotalWeight(c))

RECURSIVE ColMin(_)
ColMin(col) ==
    IF Len(col) = 1 THEN col[1] ELSE RMin(col[1], ColMin(Tail(col)))

RECURSIVE ColMax(_)
ColMax(col) ==
    IF Len(col) = 1 THEN col[1] ELSE RMax(col[1], ColMax(Tail(col)))

\* MinMaxScaler().fit_transform on one column: (x - min) / (max - min), and
\* x - min when the column is constant (the scaler then divides by 1)
fit_transform(col) ==
    [i \in 1..Len(col) |->
        IF ColMin(col) = ColMax(col) THEN RSub(col[i], ColMin(col))
        ELSE RDiv(RSub(col[i], ColMin(col)), RSub(ColMax(col), ColMin(col)))]

\* lines 213-221: fit_transform(np.array([[x]]))[0][0], 0 for a NaN metric
ScaledAlone(x) == IF IsNan(x) THEN RInt(0) ELSE fit_transform(<<x.v>>)[1]

\* lines 225-233
FinalScore(m, c) ==
    RAdd(RAdd(RAdd(RAdd(RMul(ScaledAlone(m.eva_pct), c.eva_weight),
                        RMul(ScaledAlone(m.efv_pct), c.efv_weight)),
                   RMul(ScaledAlone(m.upside_pct), c.upside_weight)),
              RMul(ScaledAlone(m.profitability_score), c.profitability_weight)),
         RMul(ScaledAlone(m.liquidity_score), c.liquidity_weight))

\* lines 187-255 with the normalised criteria c
ProcessedData(companies, c) ==
    [i \in 1..Len(companies) |->
        [ticker |-> i, eva_pct |-> companies[i].eva_pct,
         efv_pct |-> companies[i].efv_pct, upside_pct |-> companies[i].upside_pct,
         profitability_score |-> companies[i].profitability_score,
         liquidity_score |-> companies[i].liquidity_score,
         final_score |-> Num(FinalScore(companies[i], c))]]

\* custom_rank_companies(companies_data, criteria): the sorted list, and the
\* criteria object it normalised in place
custom_rank_companies(companies, criteria) ==
    [criteria |-> normalize_weights(criteria),
     processed_data |->
         sort_values_desc(ProcessedData(companies, normalize_weights(criteria)),
                          "final_score")]

\* the weights a caller can put in a RankingCriteria
CriteriaWeights == {RInt(0), RInt(1), RInt(3)}

RankedMetrics ==
    [eva_pct : {NaN, Num(RInt(5)), Num(RInt(10))}, efv_pct : {Num(RInt(0))},
     upside_pct : {NaN, Num(RInt(20))},
     profitability_score : {Num(RInt(0)), Num(RInt(10))},
     liquidity_score : {Num(RInt(100))}]

InitCustomRank ==
    /\ a_in \in [fn : {"custom_rank_companies"},
                 criteria : [WeightNames -> CriteriaWeights],
                 companies : UNION {[1..n -> RankedMetrics] : n \in 0..MaxRanked}]
    /\ a_out = None /\ a_pc = "start"
    /\ RunIdle /\ FunIdle /\ WaccIdle /\ RankIdle /\ FetchIdle /\ BatchIdle
    /\ ValIdle /\ CacheIdle

CustomRankCompanies ==
    /\ a_pc = "start" /\ a_in.fn = "custom_rank_companies"
    /\ a_out' = custom_rank_companies(a_in.companies, a_in.criteria)
    /\ a_pc' = "returned"
    /\ UNCHANGED <<a_in, runVars, funVars, waccVars, rankVars, fetchVars, batchVars,
                   valVars, cacheVars>>

NextCustomRank == CustomRankCompanies

SpecCustomRank == InitCustomRank /\ [][NextCustomRank]_vars

CustomRankReturned == a_pc = "returned" /\ a_in.fn = "custom_rank_companies"

(* C24: for every RankingCriteria passed to custom_rank_companies, the five  *)
(* weights used in the composite score are non-negative and sum to 1.        *)
C24_WeightsNormalized ==
    CustomRankReturned =>
        /\ \A w \in WeightNames : RLeq(RInt(0), a_out.criteria[w])
        /\ TotalWeight(a_out.criteria) = RInt(1)

\* the final score of the company numbered t
FinalScoreOf(t) ==
    (CHOOSE r \in {a_out.processed_data[k] : k \in DOMAIN a_out.processed_data} :
        r.ticker = t).final_score.v

(* C25: scaling is fitted over all companies: of two companies that differ   *)
(* only in eva_pct, ranked with a positive eva weight, the one with the      *)
(* larger eva_pct gets the larger composite score.                           *)
C25_ScalingAcrossCompanies ==
    CustomRankReturned =>
        \A i, j \in DOMAIN a_in.companies :
            (/\ ~IsNan(a_in.companies[i].eva_pct) /\ ~IsNan(a_in.companies[j].eva_pct)
             /\ RLess(a_in.companies[j].eva_pct.v, a_in.companies[i].eva_pct.v)
             /\ [a_in.companies[i] EXCEPT !.eva_pct = NaN]
                    = [a_in.companies[j] EXCEPT !.eva_pct = NaN]
             /\ RLess(RInt(0), a_in.criteria.eva_weight))
            => RLess(FinalScoreOf(j), FinalScoreOf(i))

-----------------------------------------------------------------------------
(* The clusters of AdvancedRanking.identify_opportunities                    *)
(* (src/core/advanced_ranking.py, lines 293-379).  The labels K-Means gives  *)
(* depend on the metrics; any labelling with labels 0..2 is taken as         *)
(* possible.                                                                 *)

\* the tickers submitted are a prefix of this list
ClusterTickers == <<"AAAA3", "BBBB4", "CCCC3", "DDDD3">>

\* f"Cluster {cluster_id + 1}"
ClusterName(cluster_id) ==
    IF cluster_id = 0 THEN "Cluster 1" ELSE IF cluster_id = 1 THEN "Cluster 2" ELSE "Cluster 3"

\* lines 359-367: one entry per label in use, with the tickers of that label
\* in the order of the frame
ClustersOfLabels(tickers, labels) ==
    [name \in {ClusterName(labels[i]) : i \in DOMAIN labels} |->
        LET members == SelectSeq([i \in DOMAIN tickers |-> i],
                                 LAMBDA i : ClusterName(labels[i]) = name)
        IN  [p \in DOMAIN members |-> tickers[members[p]]]]

\* line 373
ClusteringError ==
    [name \in {"Erro no Clustering"} |-> <<"Não foi possível agrupar as empresas.">>]

\* line 379
InsufficientData ==
    [name \in {"Dados Insuficientes"} |-> <<"Mínimo de 3 empresas para agrupamento.">>]

InitClusters ==
    /\ a_in \in [fn : {"identify_opportunities"},
                 tickers : {SubSeq(ClusterTickers, 1, n) : n \in 0..Len(ClusterTickers)}]
    /\ a_out = None /\ a_pc = "start"
    /\ RunIdle /\ FunIdle /\ WaccIdle /\ RankIdle /\ FetchIdle /\ BatchIdle
    /\ ValIdle /\ CacheIdle

\* lines 293-299: an empty frame returns the initial dict, clusters = {}
OpportunitiesEmpty ==
    /\ a_pc = "start" /\ a_in.fn = "identify_opportunities"
    /\ a_in.tickers = <<>>
    /\ a_out' = [clusters |-> <<>>]
    /\ a_pc' = "returned"
    /\ UNCHANGED <<a_in, runVars, funVars, waccVars, rankVars, fetchVars, batchVars,
                   valVars, cacheVars>>

\* lines 375-379: one or two companies
OpportunitiesFewCompanies ==
    /\ a_pc = "start" /\ a_in.fn = "identify_opportunities"
    /\ a_in.tickers # <<>> /\ Len(a_in.tickers) < 3
    /\ a_out' = [clusters |-> InsufficientData]
    /\ a_pc' = "returned"
    /\ UNCHANGED <<a_in, runVars, funVars, waccVars, rankVars, fetchVars, batchVars,
                   valVars, cacheVars>>

\* lines 349-367: K-Means with min(len(features), 3) clusters labels every row
OpportunitiesClustered ==
    /\ a_pc = "start" /\ a_in.fn = "identify_opportunities"
    /\ Len(a_in.tickers) >= 3
    /\ \E labels \in [DOMAIN a_in.tickers -> 0..2] :
          a_out' = [clusters |-> ClustersOfLabels(a_in.tickers, labels)]
    /\ a_pc' = "returned"
    /\ UNCHANGED <<a_in, runVars, funVars, waccVars, rankVars, fetchVars, batchVars,
                   valVars, cacheVars>>

\* lines 369-373: K-Means raises, the exception is caught
OpportunitiesClusteringError ==
    /\ a_pc = "start" /\ a_in.fn = "identify_opportunities"
    /\ Len(a_in.tickers) >= 3
    /\ a_out' = [clusters |-> ClusteringError]
    /\ a_pc' = "returned"
    /\ UNCHANGED <<a_in, runVars, funVars, waccVars, rankVars, fetchVars, batchVars,
                   valVars, cacheVars>>

NextClusters ==
    \/ OpportunitiesEmpty \/ OpportunitiesFewCompanies
    \/ OpportunitiesClustered \/ OpportunitiesClusteringError

SpecClusters == InitClusters /\ [][NextClusters]_vars

\* the places (cluster, position) where ticker t appears
PlacesOf(t) ==
    {<<name, p>> \in (DOMAIN a_out.clusters) \X (1..Len(ClusterTickers)) :
        p <= Len(a_out.clusters[name]) /\ a_out.clusters[name][p] = t}

(* C26: with fewer than 3 companies (0, 1 or 2) the clusters result carries  *)
(* the 'insufficient data' marker; with 3 or more it has at most 3 clusters  *)
(* in which every submitted ticker appears exactly once.                     *)
C26_ClustersWellFormed ==
    (a_pc = "returned" /\ a_in.fn = "identify_opportunities") =>
        IF Len(a_in.tickers) < 3
        THEN "Dados Insuficientes" \in DOMAIN a_out.clusters
        ELSE /\ Cardinality(DOMAIN a_out.clusters) <= 3
             /\ \A i \in DOMAIN a_in.tickers :
                    Cardinality(PlacesOf(a_in.tickers[i])) = 1

-----------------------------------------------------------------------------
(* IbovespaAnalysisSystem.run_complete_analysis and the table                *)
(* analysis_reports (src/backend/core/ibovespa_analysis_system.py,           *)
(* src/core/db_manager.py).  The clock counts half days.                     *)

\* timedelta(days=1), in half days
FreshnessThreshold == 2

\* get_latest_full_analysis_report: ORDER BY report_date DESC LIMIT 1, with
\* no condition on report_type
get_latest_full_analysis_report(db) == IF db = <<>> THEN None ELSE Some(db[Len(db)])

\* the same query restricted to report_type = 'full'
LatestOfTypeFull(db) ==
    IF SelectSeq(db, LAMBDA r : r.type = "full") = <<>> THEN None
    ELSE Some(SelectSeq(db, LAMBDA r : r.type = "full")
                  [Len(SelectSeq(db, LAMBDA r : r.type = "full"))])

\* report_date > datetime.now() - timedelta(days=1) (lines 127-129)
IsFresh(report, now) == report.at > now - FreshnessThreshold

\* lines 123-129: the stored report is used
UsesStored(num_companies, force_recollect, db, now) ==
    /\ ~force_recollect /\ num_companies = None
    /\ get_latest_full_analysis_report(db) # None
    /\ IsFresh(get_latest_full_analysis_report(db)[1], now)

\* 'full' if num_companies is None else 'quick' (line 274)
ReportType(num_companies) == IF num_companies = None THEN "full" ELSE "quick"

NoReport == [type |-> "none", at |-> 0]

InitCache ==
    /\ s_db = <<>> /\ s_now = 0 /\ s_ret = None /\ s_pc = "ready"
    /\ RunIdle /\ FunIdle /\ WaccIdle /\ RankIdle /\ FetchIdle /\ BatchIdle
    /\ ValIdle /\ AdvIdle

\* run_complete_analysis, lines 123-173: the latest stored report is returned
ReturnStoredReport ==
    /\ s_pc = "ready"
    /\ \E num_companies \in {None, Some(1)}, force_recollect \in BOOLEAN :
          /\ UsesStored(num_companies, force_recollect, s_db, s_now)
          /\ s_ret' = [source |-> "db", status |-> "success", num |-> num_companies,
                       force |-> force_recollect, now |-> s_now,
                       report |-> get_latest_full_analysis_report(s_db)[1]]
    /\ UNCHANGED <<s_db, s_now, s_pc, runVars, funVars, waccVars, rankVars, fetchVars,
                   batchVars, valVars, advVars>>

\* run_complete_analysis, lines 175-281: a new analysis, saved with its type
RunNewAnalysis ==
    /\ s_pc = "ready" /\ Len(s_db) < MaxReports
    /\ \E num_companies \in {None, Some(1)}, force_recollect \in BOOLEAN :
          /\ ~UsesStored(num_companies, force_recollect, s_db, s_now)
          /\ s_db' = Append(s_db, [type |-> ReportType(num_companies), at |-> s_now])
          /\ s_ret' = [source |-> "new", status |-> "success", num |-> num_companies,
                       force |-> force_recollect, now |-> s_now,
                       report |-> [type |-> ReportType(num_companies), at |-> s_now]]
    /\ UNCHANGED <<s_now, s_pc, runVars, funVars, waccVars, rankVars, fetchVars,
                   batchVars, valVars, advVars>>

\* run_complete_analysis, lines 184-195: nothing collected, an error dict is
\* returned and nothing is saved
RunNewAnalysisNoData ==
    /\ s_pc = "ready"
    /\ \E num_companies \in {None, Some(1)}, force_recollect \in BOOLEAN :
          /\ ~UsesStored(num_companies, force_recollect, s_db, s_now)
          /\ s_ret' = [source |-> "new", status |-> "error", num |-> num_companies,
                       force |-> force_recollect, now |-> s_now, report |-> NoReport]
    /\ UNCHANGED <<s_db, s_now, s_pc, runVars, funVars, waccVars, rankVars, fetchVars,
                   batchVars, valVars, advVars>>

\* half a day passes
Tick ==
    /\ s_pc = "ready" /\ s_now < MaxClock
    /\ s_now' = s_now + 1
    /\ UNCHANGED <<s_db, s_ret, s_pc, runVars, funVars, waccVars, rankVars, fetchVars,
                   batchVars, valVars, advVars>>

NextCache == ReturnStoredReport \/ RunNewAnalysis \/ RunNewAnalysisNoData \/ Tick

SpecCache == InitCache /\ [][NextCache]_vars

(* C30: run_complete_analysis returns a stored report only when called with  *)
(* num_companies=None and force_recollect=False and only the most recent     *)
(* complete report, less than one day old; every other call executes a new   *)
(* analysis, whose report, when one is produced, is saved.                   *)
C30_StoredReportOnlyIfFreshComplete ==
    s_ret # None =>
        /\ s_ret.source = "db" =>
              /\ s_ret.num = None /\ ~s_ret.force
              /\ s_ret.report.type = "full"
              /\ LatestOfTypeFull(s_db) = Some(s_ret.report)
              /\ IsFresh(s_ret.report, s_ret.now)
        /\ (s_ret.source = "new" /\ s_ret.status = "success") =>
              s_db # <<>> /\ s_db[Len(s_db)] = s_ret.report

====
